---- MODULE Spec2Model ----
(***************************************************************************)
(* A model of the gridder trading bot: the grid ladder (GridCalculator),   *)
(* the run loop of TraderBot with its order sync and PnL evaluation, and   *)
(* the append-only store as far as the bot writes to it.                   *)
(*                                                                         *)
(* Units.  Prices are integers; the venue's price tick is price_tick of    *)
(* these units, so that the mid price (bid + ask) / 2 of two tick-aligned  *)
(* quotes is again an integer.  Base quantities are integers in units of   *)
(* size_tick.  Quote amounts are price * base.  Percentages are integers.  *)
(* Python floats are modelled by exact arithmetic.                         *)
(***************************************************************************)
EXTENDS Integers, Sequences, FiniteSets, TLC

(***************************************************************************)
(* Bounds of the model.                                                    *)
(***************************************************************************)
\* iterations of the trading loop a run may execute
MaxIter == 2
\* largest number of whole days a PnL evaluation may see elapsed
MaxDays == 2
\* grid_max_open_orders ranges over 1..MaxOpenOrders
MaxOpenOrders == 2
\* the spread ask - bid ranges over 1..MaxSpreadTicks ticks
MaxSpreadTicks == 3
\* price_for_volume returns 0 (no liquidity) or MaxOptionPrice
MaxOptionPrice == 7

Max(a, b) == IF a >= b THEN a ELSE b
Min(a, b) == IF a <= b THEN a ELSE b

\* Python's None, and a value that is not None
None == << >>
Some(v) == << v >>

(***************************************************************************)
(* Inputs: the venue's ticks and the strategy configuration.               *)
(***************************************************************************)
\* BinanceIntegration.get_price_tick / get_size_tick, in model units
Venue == [price_tick |-> 2, size_tick |-> 1]

\* the fields of the configuration file the bot reads, except trading_mode
\* and grid_max_open_orders, which Init draws
BaseConfig ==
    [ spot_entry_price |-> 10,
      spot_down_range_percent |-> 20,
      spot_up_range_percent |-> 20,
      spot_orders_diff_percent |-> 15,
      spot_order_size_quote |-> 20,
      call_option_size_base |-> 1,
      call_option_initial_cost_base |-> 2,
      put_option_size_base |-> 1,
      put_option_initial_cost_base |-> 2,
      daily_roi_target_num |-> 1,
      daily_roi_target_den |-> 4 ]

Configs ==
    { [ trading_mode |-> m, grid_max_open_orders |-> n, base |-> BaseConfig ] :
        m \in {"test", "live"}, n \in 1..MaxOpenOrders }

(***************************************************************************)
(* GridCalculator                                                          *)
(***************************************************************************)
\* a rounding that drops the fraction of value / tick
round_to_tick_down(num, den, tick) ==
    tick * (num \div (den * tick))

\* round_to_tick(value, tick) for the non-negative rational value num/den:
\* (value / tick) rounded half up to an integer, times tick
round_to_tick(num, den, tick) ==
    tick * ((2 * num + den * tick) \div (2 * den * tick))

\* a walk without the forced step: a level whose rounded next price is not
\* lower is appended once more before the walk moves on
RECURSIVE GridWalkRepeating(_, _, _, _)
GridWalkRepeating(cfg, venue, min_spot_price, current_price0) ==
    IF ~(current_price0 >= min_spot_price) THEN << >>
    ELSE
      LET current_price == round_to_tick(current_price0, 1, venue.price_tick)
          order_size_base ==
              round_to_tick(cfg.spot_order_size_quote, current_price, venue.size_tick)
          next_price0 ==
              round_to_tick(current_price * (100 - cfg.spot_orders_diff_percent),
                            100, venue.price_tick)
          row == [ price |-> current_price,
                   order_size_base |-> order_size_base,
                   order_size_quote |-> order_size_base * current_price ]
      IN  IF next_price0 >= current_price
            THEN << row, row >>
                 \o GridWalkRepeating(cfg, venue, min_spot_price,
                                      current_price - venue.price_tick)
            ELSE << row >> \o GridWalkRepeating(cfg, venue, min_spot_price, next_price0)

\* the rows appended by the while loop of calculate_grid_orders, from
\* current_price downwards, highest price first
RECURSIVE GridWalk(_, _, _, _)
GridWalk(cfg, venue, min_spot_price, current_price0) ==
    IF ~(current_price0 >= min_spot_price) THEN << >>
    ELSE
      LET current_price == round_to_tick(current_price0, 1, venue.price_tick)
          order_size_base ==
              round_to_tick(cfg.spot_order_size_quote, current_price, venue.size_tick)
          order_size_quote == order_size_base * current_price
          next_price0 ==
              round_to_tick(current_price * (100 - cfg.spot_orders_diff_percent),
                            100, venue.price_tick)
          next_price == IF next_price0 >= current_price
                          THEN current_price - venue.price_tick
                          ELSE next_price0
      IN  << [ price |-> current_price,
               order_size_base |-> order_size_base,
               order_size_quote |-> order_size_quote ] >>
          \o GridWalk(cfg, venue, min_spot_price, next_price)

\* sort_values('price'): the rows of a sequence, ascending by price
RECURSIVE SortByPrice(_)
SortByPrice(rows) ==
    IF rows = << >> THEN << >>
    ELSE
      LET i == CHOOSE k \in 1..Len(rows) :
                   \A j \in 1..Len(rows) :
                       rows[k].price < rows[j].price
                       \/ (rows[k].price = rows[j].price /\ k <= j)
          rest == [ j \in 1..(Len(rows) - 1) |-> IF j < i THEN rows[j] ELSE rows[j + 1] ]
      IN  << rows[i] >> \o SortByPrice(rest)

RECURSIVE SumFrom(_, _, _, _)
\* sum of rows[j][field] for lo <= j <= hi
SumFrom(rows, field, lo, hi) ==
    IF lo > hi THEN 0 ELSE rows[lo][field] + SumFrom(rows, field, lo + 1, hi)

\* balances that count the base of the top level as owed
calculate_balances_owing(rows0) ==
    LET rows == SortByPrice(rows0)
    IN  [ i \in 1..Len(rows) |->
            [ price |-> rows[i].price,
              order_size_base |-> rows[i].order_size_base,
              order_size_quote |-> rows[i].order_size_quote,
              base_balance |-> SumFrom(rows, "order_size_base", i + 1, Len(rows))
                               - rows[Len(rows)].order_size_base,
              quote_balance |-> SumFrom(rows, "order_size_quote", 1, i - 1) ] ]

\* _calculate_balances: base_balance is the running sum of order_size_base
\* taken from the highest price down, assigned before the row's own size is
\* added; quote_balance the running sum of order_size_quote from the lowest
\* price up, assigned before the row's own amount is added
calculate_balances(rows0) ==
    LET rows == SortByPrice(rows0)
    IN  [ i \in 1..Len(rows) |->
            [ price |-> rows[i].price,
              order_size_base |-> rows[i].order_size_base,
              order_size_quote |-> rows[i].order_size_quote,
              base_balance |-> SumFrom(rows, "order_size_base", i + 1, Len(rows)),
              quote_balance |-> SumFrom(rows, "order_size_quote", 1, i - 1) ] ]

RECURSIVE MaxOf(_, _, _)
MaxOf(rows, field, i) ==
    IF i > Len(rows) THEN 0
    ELSE Max(rows[i][field], MaxOf(rows, field, i + 1))

\* A variant of _calculate_initial_funds that reads the balances of the lowest
\* level instead of the column maxima
calculate_initial_funds_lowest(df) ==
    [ base_needed |-> df[1].base_balance,
      quote_needed |-> df[1].quote_balance ]

\* _calculate_initial_funds: the maxima of the two balance columns
calculate_initial_funds(df) ==
    [ base_needed |-> MaxOf(df, "base_balance", 1),
      quote_needed |-> MaxOf(df, "quote_balance", 1) ]

\* abs() of a price difference
Abs(x) == IF x < 0 THEN -x ELSE x

\* A variant of _find_entry_index that keeps the last of several closest rows
find_entry_index_last(df, spot_entry_price) ==
    CHOOSE i \in 1..Len(df) :
        /\ \A j \in 1..Len(df) :
               Abs(df[i].price - spot_entry_price) <= Abs(df[j].price - spot_entry_price)
        /\ \A j \in (i + 1)..Len(df) :
               Abs(df[i].price - spot_entry_price) < Abs(df[j].price - spot_entry_price)

\* _find_entry_index: Series.idxmin() of the absolute price differences, the
\* first row holding the minimum. Rows are numbered from 1 here, from 0 in the
\* DataFrame.
find_entry_index(df, spot_entry_price) ==
    CHOOSE i \in 1..Len(df) :
        /\ \A j \in 1..Len(df) :
               Abs(df[i].price - spot_entry_price) <= Abs(df[j].price - spot_entry_price)
        /\ \A j \in 1..(i - 1) :
               Abs(df[j].price - spot_entry_price) > Abs(df[i].price - spot_entry_price)

\* calculate_grid_orders: (orders_df, base_needed, quote_needed); entry_index
\* is the local of line 66, passed to _calculate_initial_funds and unused there
calculate_grid_orders(cfg, venue) ==
    LET min_spot_price ==
            round_to_tick(cfg.spot_entry_price * (100 - cfg.spot_down_range_percent),
                          100, venue.price_tick)
        max_spot_price ==
            round_to_tick(cfg.spot_entry_price * (100 + cfg.spot_up_range_percent),
                          100, venue.price_tick)
        df == calculate_balances(
                  SortByPrice(GridWalk(cfg, venue, min_spot_price, max_spot_price)))
        funds == calculate_initial_funds(df)
    IN  [ orders_df |-> df,
          entry_index |-> find_entry_index(df, cfg.spot_entry_price),
          base_needed |-> funds.base_needed,
          quote_needed |-> funds.quote_needed ]

\* DataFrame.tail(n) and DataFrame.head(n) for n >= 0
DfTail(df, n) == SubSeq(df, Max(1, Len(df) - n + 1), Len(df))
DfHead(df, n) == SubSeq(df, 1, Min(n, Len(df)))

\* a selection that takes the buy candidates from the low end of the ladder
get_orders_for_price_range_head(orders_df, current_price, max_orders) ==
    LET Below(r) == r.price < current_price
        Above(r) == r.price > current_price
    IN  [ buy_orders |-> DfHead(SelectSeq(orders_df, Below), max_orders),
          sell_orders |-> DfHead(SelectSeq(orders_df, Above), max_orders) ]

\* get_orders_for_price_range
get_orders_for_price_range(orders_df, current_price, max_orders) ==
    LET Below(r) == r.price < current_price
        Above(r) == r.price > current_price
    IN  [ buy_orders |-> DfTail(SelectSeq(orders_df, Below), max_orders),
          sell_orders |-> DfHead(SelectSeq(orders_df, Above), max_orders) ]

(***************************************************************************)
(* TraderBot: state                                                        *)
(***************************************************************************)
VARIABLES
    pc,                       \* where the process is, see Lifecycle below
    config,                   \* the validated configuration
    orders_df,                \* the ladder, ascending by price
    base_needed,
    quote_needed,
    running,                  \* self.running
    open_orders,              \* self.open_orders
    buy_trades,
    sell_trades,
    last_trade,               \* self.last_trade, None or a trade
    last_pnl_check,           \* "initial": start minus one minute; "checked"
    last_simulated_balances,  \* None or the balances of the last full iteration
    iter,                     \* iterations of the loop started so far
    bid_ask,                  \* (bid, ask) of the running iteration, or None
    current_balances,         \* current_balances of the running iteration
    db,                       \* the store: what each table holds
    exit_code,                \* what main() returns, None while running
    account,                  \* the venue's balances at funds verification (live)
    caught,                   \* the running iteration ended in its except clause
    sync,                     \* what the last order sync did, None outside one
    last_eval,                \* the last daily-ROI evaluation, None outside one
    take_profit_entries,      \* calls of _enter_take_profit_mode
    close_out,                \* what _close_all_positions did, None before it
    signal_at,                \* pc at which KeyboardInterrupt arrived, or "None"
    call,                     \* a function applied on its own: its arguments
    result,                   \* and what it returned, None before it returns
    data_dir,                 \* the files of the store's directory
    utcnow,                   \* datetime.utcnow(), in seconds
    writer,                   \* the process in save_to_db
    reader                    \* the process in read_table

\* the variables of the bot and of the functions applied on their own
bot_vars == << pc, config, orders_df, base_needed, quote_needed, running, open_orders,
               buy_trades, sell_trades, last_trade, last_pnl_check,
               last_simulated_balances, iter, bid_ask, current_balances, db,
               exit_code, account, caught, sync, last_eval, take_profit_entries,
               close_out, signal_at, call, result >>

\* the variables of the store's files and of the processes at work on them
store_vars == << data_dir, utcnow, writer, reader >>

vars == << bot_vars, store_vars >>

\* no file on disk and no process at work on the store
NoStore ==
    /\ data_dir = {}
    /\ utcnow = 0
    /\ writer = [ pc |-> "idle", written |-> 0 ]
    /\ reader = [ pc |-> "idle" ]

test_mode == config.trading_mode = "test"

\* tick-aligned prices the orderbook may show: from one tick below the ladder
\* to one tick above it
PriceGrid ==
    { p \in (orders_df[1].price - Venue.price_tick)
            ..(orders_df[Len(orders_df)].price + Venue.price_tick) :
        p % Venue.price_tick = 0 }
\* get_orderbook: (bid_price, ask_price) with bid below ask
Quotes ==
    { q \in PriceGrid \X PriceGrid :
        q[1] < q[2] /\ q[2] - q[1] <= MaxSpreadTicks * Venue.price_tick }

\* fallback_price of get_orderbook
fallback_price == 100000

\* _make_request for an unsigned market-data endpoint: the request, and one
\* retry when it failed; TRUE where it raises
make_request_raises(first_ok, retry_ok) == ~first_ok /\ ~retry_ok

\* get_orderbook: the venue's quote; when _make_request raises, in test mode
\* the quote around fallback_price, in live mode the exception
get_orderbook(mode_is_test, first_ok, retry_ok, venue_quote) ==
    IF ~make_request_raises(first_ok, retry_ok)
      THEN [ raised |-> FALSE, bid_price |-> venue_quote[1], ask_price |-> venue_quote[2] ]
    ELSE IF mode_is_test
      THEN [ raised |-> FALSE, bid_price |-> (fallback_price * 999) \div 1000,
             ask_price |-> (fallback_price * 1001) \div 1000 ]
    ELSE [ raised |-> TRUE, bid_price |-> 0, ask_price |-> 0 ]

\* _get_current_bid_ask: the pair (bid_price, ask_price), or, when
\* get_orderbook raised, the number spot_entry_price; it never raises
get_current_bid_ask(cfg, mode_is_test, first_ok, retry_ok, venue_quote) ==
    LET orderbook == get_orderbook(mode_is_test, first_ok, retry_ok, venue_quote)
    IN  IF orderbook.raised
          THEN [ raised |-> FALSE, is_pair |-> FALSE, price |-> cfg.spot_entry_price ]
          ELSE [ raised |-> FALSE, is_pair |-> TRUE,
                 bid |-> orderbook.bid_price, ask |-> orderbook.ask_price ]

(***************************************************************************)
(* TraderBot: balances and order sync                                      *)
(***************************************************************************)
\* _calculate_simulated_balances
calculate_simulated_balances(df, base, quote, current_price) ==
    LET max_price == df[Len(df)].price
        min_price == df[1].price
        AtOrBelow(r) == r.price <= current_price
        filtered == SelectSeq(df, AtOrBelow)
        expected ==
            IF current_price < min_price THEN [ b |-> base, q |-> 0 ]
            ELSE IF current_price > max_price THEN [ b |-> 0, q |-> quote ]
            ELSE IF filtered = << >> THEN [ b |-> 0, q |-> 0 ]
            ELSE [ b |-> filtered[Len(filtered)].base_balance,
                   q |-> filtered[Len(filtered)].quote_balance ]
    IN  [ BTC |-> Max(0, expected.b), FDUSD |-> Max(0, expected.q) ]

\* a selection of the rows at or below the price that replaces the ladder
orders_df_selected(df, current_price) ==
    LET AtOrBelow(r) == r.price <= current_price
    IN  IF current_price < df[1].price \/ current_price > df[Len(df)].price
          THEN df
          ELSE SelectSeq(df, AtOrBelow)

\* self.orders_df after _calculate_simulated_balances: the rows at or below
\* the price are selected into a new frame, the ladder itself is only read
orders_df_after_balances(df, current_price) == df

\* list.sort(key=price) of a set of orders with distinct prices
RECURSIVE SortOrders(_, _)
SortOrders(orders, descending) ==
    IF orders = {} THEN << >>
    ELSE
      LET o == CHOOSE x \in orders :
                   \A y \in orders :
                       IF descending THEN x.price >= y.price ELSE x.price <= y.price
      IN  << o >> \o SortOrders(orders \ {o}, descending)

\* the trade written for a filled order
TradeOf(side, order) ==
    [ side |-> side, price |-> order.price, quantity |-> order.quantity ]

\* The loops "for order in filled_orders" of the test branch, from the i-th
\* filled order on.  st holds open_orders, last_trade, the two counters and
\* the trades written.  The fail_at-th write to the store raises (0: none).
RECURSIVE FillLoop(_, _, _, _, _)
FillLoop(filled, i, side, st, fail_at) ==
    IF i > Len(filled) THEN st
    ELSE
      LET order == filled[i]
          counted == IF side = "BUY"
                       THEN [ st EXCEPT !.buy_trades = @ + 1 ]
                       ELSE [ st EXCEPT !.sell_trades = @ + 1 ]
      IN  IF i = fail_at THEN [ counted EXCEPT !.raised = TRUE ]
          ELSE FillLoop(filled, i + 1, side,
                        [ counted EXCEPT
                            !.trades = Append(@, TradeOf(side, order)),
                            !.open_orders = { o \in @ : o.orderId # order.orderId },
                            !.last_trade = Some(TradeOf(side, order)) ],
                        fail_at)

\* filled orders taken in the opposite order
FilledOrdersReversed(orders, diff, bid_price, ask_price) ==
    IF diff > 0
      THEN SortOrders({ o \in orders : o.side = "BUY" /\ o.price > bid_price }, FALSE)
      ELSE SortOrders({ o \in orders : o.side = "SELL" /\ o.price < ask_price }, TRUE)

\* the orders the test branch takes as filled, sorted as the code sorts them
FilledOrders(orders, diff, bid_price, ask_price) ==
    IF diff > 0
      THEN SortOrders({ o \in orders : o.side = "BUY" /\ o.price > bid_price }, TRUE)
      ELSE SortOrders({ o \in orders : o.side = "SELL" /\ o.price < ask_price }, FALSE)

\* a placement that tracks the order although the venue call raised
place_order_tracking(orders, mode_is_test, order) ==
    [ open_orders |-> orders \cup {order},
      failed |-> ~mode_is_test,
      raised |-> FALSE ]

\* _place_order.  In test mode the order is appended to self.open_orders.  In
\* live mode binance.place_order is called with the keyword client_order_id,
\* which it does not take: the TypeError is caught by the except clause of
\* _place_order, which logs it, and nothing is appended.  failed: the venue
\* call raised; raised: an exception left _place_order.
place_order(orders, mode_is_test, order) ==
    [ open_orders |-> IF mode_is_test THEN orders \cup {order} ELSE orders,
      failed |-> ~mode_is_test,
      raised |-> FALSE ]

\* The placement loops of the test branch over the candidates cands (pairs of
\* side and ladder row, BUY candidates first), from the i-th on.  An order's
\* orderId is the clock in milliseconds when it is placed: all orders of a
\* pass share now when same_ms, otherwise each gets a later one.
RECURSIVE PlaceLoop(_, _, _, _, _, _)
PlaceLoop(cands, i, st, open_order_prices, now, same_ms) ==
    IF i > Len(cands) THEN st
    ELSE
      LET side == cands[i][1]
          row == cands[i][2]
          missing == << row.price, side >> \notin open_order_prices
          skip == st.last_trade # None /\ st.last_trade[1].price = row.price
          order == [ orderId |-> << now, IF same_ms THEN 0 ELSE Cardinality(st.placed) + 1 >>,
                     side |-> side,
                     quantity |-> row.order_size_base,
                     price |-> row.price ]
      IN  IF missing /\ ~skip
            THEN PlaceLoop(cands, i + 1,
                           [ st EXCEPT !.open_orders = place_order(@, TRUE, order).open_orders,
                                       !.placed = @ \cup {order} ],
                           open_order_prices, now, same_ms)
            ELSE PlaceLoop(cands, i + 1, st, open_order_prices, now, same_ms)

\* pairs of side and row, in the order of the two nested for loops
Candidates(ranges) ==
    [ i \in 1..Len(ranges.buy_orders) |-> << "BUY", ranges.buy_orders[i] >> ]
    \o [ i \in 1..Len(ranges.sell_orders) |-> << "SELL", ranges.sell_orders[i] >> ]

\* what a sync pass starts from
SyncStart(orders, trade, buys, sells) ==
    [ open_orders |-> orders, last_trade |-> trade, buy_trades |-> buys,
      sell_trades |-> sells, trades |-> << >>, placed |-> {},
      open_order_prices |-> {}, raised |-> FALSE ]

\* a set of keys that leaves out the SELL orders
OpenOrderPricesOfBuys(orders) ==
    { << o.price, o.side >> : o \in { x \in orders : x.side = "BUY" } }

\* open_order_prices of the test branch: the (price, side) of every tracked
\* order
OpenOrderPrices(orders) == { << o.price, o.side >> : o \in orders }

\* _manage_grid_orders, test branch
manage_grid_orders_test(st, df, max_orders, balances, bid_price, ask_price, last_balances, now, same_ms, fail_at) ==
    LET btc_balance == balances.BTC
        mid_price == (bid_price + ask_price) \div 2
        diff == IF last_balances = None THEN 0 ELSE btc_balance - last_balances[1].BTC
        filled == FilledOrders(st.open_orders, diff, bid_price, ask_price)
        after_fills ==
            IF diff = 0 THEN st
            ELSE FillLoop(filled, 1, IF diff > 0 THEN "BUY" ELSE "SELL", st, fail_at)
        ranges == get_orders_for_price_range(df, mid_price, max_orders)
        open_order_prices == OpenOrderPrices(after_fills.open_orders)
    IN  IF after_fills.raised THEN after_fills
        ELSE PlaceLoop(Candidates(ranges), 1,
                       [ after_fills EXCEPT !.open_order_prices = open_order_prices ],
                       open_order_prices, now, same_ms)

\* _manage_grid_orders, live branch: get_orders_for_price_range takes three
\* arguments and is called with four (self.last_trade is the fourth), which
\* raises TypeError before an order is looked at; on an empty selection of
\* rows the .iloc[0] before it raises IndexError
manage_grid_orders_live(st) == [ st EXCEPT !.raised = TRUE ]

\* _manage_grid_orders
manage_grid_orders(st, mode_is_test, df, max_orders, balances, bid_price, ask_price, last_balances, now, same_ms, fail_at) ==
    IF mode_is_test
      THEN manage_grid_orders_test(st, df, max_orders, balances, bid_price, ask_price,
                                   last_balances, now, same_ms, fail_at)
      ELSE manage_grid_orders_live(st)

(***************************************************************************)
(* TraderBot: PnL                                                          *)
(***************************************************************************)
\* self.realized_pnl: set to 0.0 by __init__ and assigned nowhere else
realized_pnl == 0

\* _calculate_spot_unrealized_pnl, given the quote and the balances it fetched
calculate_spot_unrealized_pnl(cfg, base, quote, current_price, balances) ==
    LET initial_value == base * cfg.spot_entry_price + quote
        current_value == balances.BTC * current_price + balances.FDUSD
    IN  current_value - initial_value + realized_pnl

\* _calculate_options_pnl, given the two executable prices and the bid it
\* fetched; (price - cost / size) * size is taken exactly
calculate_options_pnl(cfg, call_price, put_price, bid_price, failed) ==
    LET call_pnl_btc == call_price * cfg.call_option_size_base
                        - cfg.call_option_initial_cost_base
        put_pnl_btc == put_price * cfg.put_option_size_base
                       - cfg.put_option_initial_cost_base
        call_pnl == call_pnl_btc * bid_price
        put_pnl == put_pnl_btc * bid_price
    IN  IF failed THEN [ call_pnl |-> 0, put_pnl |-> 0, total_pnl |-> 0 ]
        ELSE [ call_pnl |-> call_pnl, put_pnl |-> put_pnl,
               total_pnl |-> call_pnl + put_pnl ]

\* max(1, (utcnow - start_time).days)
running_days(elapsed_days) == Max(1, elapsed_days)

\* initial_investment of _check_pnl
initial_investment(cfg, quote) ==
    quote + cfg.call_option_initial_cost_base + cfg.put_option_initial_cost_base

\* daily_roi of _check_pnl as the fraction num / den, den > 0
daily_roi(total_pnl, elapsed_days, investment) ==
    IF investment > 0
      THEN [ num |-> total_pnl, den |-> running_days(elapsed_days) * investment ]
      ELSE [ num |-> 0, den |-> 1 ]

\* a comparison that misses a daily_roi equal to the target
roi_target_reached_strict(cfg, roi) ==
    roi.num * cfg.daily_roi_target_den > cfg.daily_roi_target_num * roi.den

\* daily_roi >= self.config['daily_roi_target_for_exit']
roi_target_reached(cfg, roi) ==
    roi.num * cfg.daily_roi_target_den >= cfg.daily_roi_target_num * roi.den

\* a close-out that a failed cancel ends
close_all_positions_aborting(orders, mode_is_test, cancel_fails, balances) ==
    LET ids == { o.orderId : o \in orders }
        failed == IF mode_is_test THEN {} ELSE ids \cap cancel_fails
    IN  [ cancel_attempts |-> IF failed = {} THEN ids ELSE failed,
          cancel_failed |-> failed,
          sold |-> IF failed = {} /\ balances.BTC > 0 THEN balances.BTC ELSE 0 ]

\* _close_all_positions: a cancel per tracked order (on the venue in live
\* mode, where those in cancel_fails raise), then a market sale of a positive
\* base balance
close_all_positions(orders, mode_is_test, cancel_fails, balances) ==
    [ cancel_attempts |-> { o.orderId : o \in orders },
      cancel_failed |-> IF mode_is_test THEN {}
                        ELSE { o.orderId : o \in orders } \cap cancel_fails,
      sold |-> IF balances.BTC > 0 THEN balances.BTC ELSE 0 ]

\* the keys of the configuration file, each the sequence of its words (joined
\* by "_" in the file): the required fields that name secrets, two others,
\* and a key the operator added
ConfigKeys ==
    { << "binance", "api", "key" >>, << "binance", "api", "secret" >>,
      << "deribit", "api", "key" >>, << "deribit", "api", "secret" >>,
      << "trading", "mode" >>, << "spot", "market" >>, << "DB", "Password" >> }

\* str.lower() of a word of a key
LowerWord(w) ==
    CASE w = "DB" -> "db" [] w = "Password" -> "password" [] OTHER -> w
\* k.lower()
LowerKey(k) == [ i \in DOMAIN k |-> LowerWord(k[i]) ]

\* sensitive in k, word by word
Contains(k, sensitive) ==
    \E i \in 0..(Len(k) - Len(sensitive)) : SubSeq(k, i + 1, i + Len(sensitive)) = sensitive

\* ['api_key', 'api_secret', 'password']
Sensitive == { << "api", "key" >>, << "api", "secret" >>, << "password" >> }

\* A variant of save_run_config that compares the keys as they are written
save_run_config_as_written(keys) ==
    { k \in keys : ~\E sensitive \in Sensitive : Contains(k, sensitive) }

\* save_run_config: the keys of safe_config
save_run_config(keys) ==
    { k \in keys : ~\E sensitive \in Sensitive : Contains(LowerKey(k), sensitive) }

(***************************************************************************)
(* TraderBot: the run                                                      *)
(***************************************************************************)
EmptyDb == [ runs |-> 0, run_config |-> {}, trades |-> << >>, spot_stats |-> 0,
             options_stats |-> 0, bot_shutdown |-> 0 ]

Init ==
    /\ pc = "INITIALIZING"
    /\ config \in Configs
    /\ orders_df = << >>
    /\ base_needed = 0
    /\ quote_needed = 0
    /\ running = FALSE
    /\ open_orders = {}
    /\ buy_trades = 0
    /\ sell_trades = 0
    /\ last_trade = None
    /\ last_pnl_check = "initial"
    /\ last_simulated_balances = None
    /\ iter = 0
    /\ bid_ask = None
    /\ current_balances = None
    /\ db = EmptyDb
    /\ exit_code = None
    /\ account = None
    /\ caught = FALSE
    /\ sync = None
    /\ last_eval = None
    /\ take_profit_entries = 0
    /\ close_out = None
    /\ signal_at = "None"
    /\ call = None
    /\ result = None
    /\ NoStore

\* TraderBot.__init__ (called by main): the venue clients, the ticks and the
\* ladder.  In live mode the client's constructor or a tick request may
\* raise, which main turns into exit code 1.
Construct ==
    /\ pc = "INITIALIZING"
    /\ \E ok \in BOOLEAN :
         /\ (test_mode => ok)
         /\ IF ok
              THEN LET grid == calculate_grid_orders(config.base, Venue)
                   IN  /\ orders_df' = grid.orders_df
                       /\ base_needed' = grid.base_needed
                       /\ quote_needed' = grid.quote_needed
                       /\ pc' = "VERIFYING_FUNDS"
                       /\ UNCHANGED exit_code
              ELSE /\ pc' = "crashed"
                   /\ exit_code' = Some(1)
                   /\ UNCHANGED << orders_df, base_needed, quote_needed >>
    /\ UNCHANGED << store_vars, call, result, config, running, open_orders, buy_trades, sell_trades, last_trade,
                    last_pnl_check, last_simulated_balances, iter, bid_ask,
                    current_balances, db, account, caught, sync, last_eval,
                    take_profit_entries, close_out, signal_at >>

\* balances get_account_balance may return, around what the ladder needs
Accounts ==
    { [ BTC |-> b, FDUSD |-> q ] :
        b \in { base_needed - 1, base_needed, base_needed + 1 },
        q \in { quote_needed - 1, quote_needed, quote_needed + 1 } }

\* _verify_sufficient_funds, given the balances read in live mode
verify_sufficient_funds(mode_is_test, balances, base, quote) ==
    IF mode_is_test THEN TRUE
    ELSE ~(balances.BTC < base \/ balances.FDUSD < quote)

\* TraderBot.start up to the loop: funds verification, self.running = True
\* and save_run_config.  A request or a write that raises here leaves start
\* through no handler, and main returns 1.  In live mode the balance request
\* always raises: it is signed, and _make_request reads time.time() for its
\* timestamp while `import time` further down the function makes time a local
\* name, unbound at that point (UnboundLocalError).  account is what the
\* venue holds at that moment.
Start ==
    /\ pc = "VERIFYING_FUNDS"
    /\ \E balances \in Accounts, read_ok \in BOOLEAN, write_ok \in BOOLEAN :
         /\ (read_ok <=> test_mode)
         /\ account' = IF test_mode THEN None ELSE Some(balances)
         /\ IF ~read_ok
              THEN /\ pc' = "crashed"
                   /\ exit_code' = Some(1)
                   /\ UNCHANGED << running, db >>
              ELSE IF ~verify_sufficient_funds(test_mode, balances, base_needed,
                                               quote_needed)
              THEN /\ pc' = "ABORTED"
                   /\ exit_code' = Some(0)
                   /\ UNCHANGED << running, db >>
              ELSE /\ running' = TRUE
                   /\ IF write_ok
                        THEN /\ db' = [ db EXCEPT !.runs = @ + 1,
                                               !.run_config = save_run_config(ConfigKeys) ]
                             /\ pc' = "fetch"
                             /\ UNCHANGED exit_code
                        ELSE /\ pc' = "crashed"
                             /\ exit_code' = Some(1)
                             /\ UNCHANGED db
    /\ UNCHANGED << store_vars, call, result, config, orders_df, base_needed, quote_needed, open_orders,
                    buy_trades, sell_trades, last_trade, last_pnl_check,
                    last_simulated_balances, iter, bid_ask, current_balances, caught,
                    sync, last_eval, take_profit_entries, close_out, signal_at >>

\* an except clause that lets the error end the loop
trading_loop_propagates == "shutdown"

\* where the except clause of _trading_loop leaves the process: the error is
\* logged and _trading_loop returns to the loop of start, at its sleep
trading_loop_except == "sleep"

\* a boundary check that raises when the price has left the ladder
check_boundary_crossing_raising(df, current_price) ==
    LET crossed == current_price < df[1].price \/ current_price > df[Len(df)].price
    IN  [ warning |-> crossed, raised |-> crossed ]

\* _check_boundary_crossing: a warning is logged when the price is below the
\* lowest or above the highest ladder price; nothing else happens
check_boundary_crossing(df, current_price) ==
    [ warning |-> current_price < df[1].price \/ current_price > df[Len(df)].price,
      raised |-> FALSE ]

\* _trading_loop up to _check_boundary_crossing: the quote, the balances and,
\* in live mode, the venue's open orders.  A failing orderbook request gives
\* the fallback quote in test mode; in live mode _get_current_bid_ask returns
\* the entry price alone, and unpacking it raises, as does a failing balance
\* or open-order request.
IterFetch ==
    /\ pc = "fetch"
    /\ iter < MaxIter
    /\ iter' = iter + 1
    /\ sync' = None
    /\ last_eval' = None
    /\ \E venue_quote \in Quotes, ok \in BOOLEAN :
         LET fetched == get_current_bid_ask(config.base, test_mode, ok, ok, venue_quote)
             q == IF fetched.is_pair THEN << fetched.bid, fetched.ask >> ELSE None
         IN
         /\ IF fetched.is_pair
               /\ ~check_boundary_crossing(orders_df, (q[1] + q[2]) \div 2).raised
              THEN /\ bid_ask' = q
                   /\ orders_df' =
                        IF test_mode
                          THEN orders_df_after_balances(orders_df, (q[1] + q[2]) \div 2)
                          ELSE orders_df
                   /\ current_balances' =
                        IF test_mode
                          THEN Some(calculate_simulated_balances(
                                        orders_df, base_needed, quote_needed,
                                        (q[1] + q[2]) \div 2))
                          ELSE account
                   /\ caught' = FALSE
                   /\ pc' = "sync"
              ELSE /\ bid_ask' = None
                   /\ UNCHANGED orders_df
                   /\ current_balances' = None
                   /\ caught' = TRUE
                   /\ pc' = trading_loop_except
    /\ UNCHANGED << store_vars, call, result, config, base_needed, quote_needed, running, open_orders,
                    buy_trades, sell_trades, last_trade, last_pnl_check,
                    last_simulated_balances, db, exit_code, account,
                    take_profit_entries, close_out, signal_at >>

\* _trading_loop: _manage_grid_orders.  An exception it raises is caught by
\* the loop's except clause, which skips the rest of the iteration.
IterSync ==
    /\ pc = "sync"
    /\ LET diff == IF last_simulated_balances = None THEN 0
                   ELSE current_balances[1].BTC - last_simulated_balances[1].BTC
           fills == IF test_mode /\ diff # 0
                      THEN Len(FilledOrders(open_orders, diff, bid_ask[1], bid_ask[2]))
                      ELSE 0
       IN  \E same_ms \in BOOLEAN, fail_at \in 0..fills :
             LET r == manage_grid_orders(
                          SyncStart(open_orders, last_trade, buy_trades, sell_trades),
                          test_mode, orders_df, config.grid_max_open_orders,
                          current_balances[1], bid_ask[1], bid_ask[2],
                          last_simulated_balances, iter, same_ms, fail_at)
             IN  /\ open_orders' = r.open_orders
                 /\ last_trade' = r.last_trade
                 /\ buy_trades' = r.buy_trades
                 /\ sell_trades' = r.sell_trades
                 /\ db' = [ db EXCEPT !.trades = @ \o r.trades ]
                 /\ sync' = Some([ placed |-> r.placed,
                                   open_order_prices |-> r.open_order_prices,
                                   trades |-> r.trades,
                                   open_before |-> open_orders,
                                   raised |-> r.raised ])
                 /\ caught' = r.raised
                 /\ pc' = IF r.raised THEN trading_loop_except ELSE "pnl"
    /\ UNCHANGED << store_vars, call, result, config, orders_df, base_needed, quote_needed, running,
                    last_pnl_check, last_simulated_balances, iter, bid_ask,
                    current_balances, exit_code, account, last_eval,
                    take_profit_entries, close_out, signal_at >>

OptionPrices == { 0, MaxOptionPrice }

\* _trading_loop after the sync: when a minute has passed since
\* last_pnl_check (always so in the first iteration), _check_pnl up to its
\* comparison of daily_roi with the target.  The quote _check_pnl fetches
\* anew is taken to be the one the iteration started with.  The stats writes
\* may raise: written counts those that succeed.
IterPnl ==
    /\ pc = "pnl"
    /\ \E due \in BOOLEAN :
         /\ (last_pnl_check = "initial" => due)
         /\ IF ~due
              THEN /\ last_simulated_balances' = current_balances
                   /\ pc' = "sleep"
                   /\ UNCHANGED << running, last_pnl_check, db, caught, last_eval,
                                   take_profit_entries >>
              ELSE \E call_price \in OptionPrices,
                      put_price \in OptionPrices, elapsed_days \in 0..MaxDays,
                      written \in 0..2, options_failed \in BOOLEAN :
                     LET q == bid_ask
                         mid == (q[1] + q[2]) \div 2
                         balances ==
                             IF test_mode
                               THEN calculate_simulated_balances(
                                        orders_df, base_needed, quote_needed, mid)
                               ELSE account[1]
                         spot == calculate_spot_unrealized_pnl(
                                     config.base, base_needed, quote_needed, mid, balances)
                         options == calculate_options_pnl(
                                        config.base, call_price, put_price, q[1],
                                        options_failed)
                         total_pnl == spot + options.total_pnl
                         investment == initial_investment(config.base, quote_needed)
                         roi == daily_roi(total_pnl, elapsed_days, investment)
                         reached == roi_target_reached(config.base, roi)
                     IN  /\ (test_mode => ~options_failed)
                         /\ db' = [ db EXCEPT
                                      !.spot_stats = @ + (IF written >= 1 THEN 1 ELSE 0),
                                      !.options_stats = @ + (IF written = 2 THEN 1 ELSE 0) ]
                         /\ IF written < 2
                              THEN /\ caught' = TRUE
                                   /\ pc' = trading_loop_except
                                   /\ UNCHANGED << running, last_pnl_check,
                                                   last_simulated_balances, last_eval,
                                                   take_profit_entries >>
                              ELSE /\ last_eval' =
                                        Some([ total_pnl |-> total_pnl,
                                               elapsed_days |-> elapsed_days,
                                               initial_investment |-> investment ])
                                   /\ UNCHANGED caught
                                   /\ IF reached
                                        THEN /\ running' = FALSE
                                             /\ take_profit_entries' =
                                                  take_profit_entries + 1
                                             /\ pc' = "take_profit"
                                             /\ UNCHANGED << last_pnl_check,
                                                             last_simulated_balances >>
                                        ELSE /\ last_pnl_check' = "checked"
                                             /\ last_simulated_balances' = current_balances
                                             /\ pc' = "sleep"
                                             /\ UNCHANGED << running,
                                                             take_profit_entries >>
    /\ sync' = None
    /\ UNCHANGED << store_vars, call, result, config, orders_df, base_needed, quote_needed, open_orders,
                    buy_trades, sell_trades, last_trade, iter, bid_ask,
                    current_balances, exit_code, account, close_out, signal_at >>

\* _enter_take_profit_mode after self.running = False: _close_all_positions
\* and the final PnL, inside a try that catches every exception; then
\* _check_pnl returns and _trading_loop finishes its iteration.  The quote
\* fetched anew is taken to be the one the iteration started with.
TakeProfit ==
    /\ pc = "take_profit"
    /\ \E cancel_fails \in SUBSET { o.orderId : o \in open_orders } :
         LET q == bid_ask
             balances ==
                 IF test_mode
                   THEN calculate_simulated_balances(
                            orders_df, base_needed, quote_needed, (q[1] + q[2]) \div 2)
                   ELSE account[1]
         IN  /\ (test_mode => cancel_fails = {})
             /\ close_out' = Some(close_all_positions(
                                      open_orders, test_mode, cancel_fails, balances))
    /\ last_pnl_check' = "checked"
    /\ last_simulated_balances' = current_balances
    /\ pc' = "sleep"
    /\ last_eval' = None
    /\ UNCHANGED << store_vars, call, result, config, orders_df, base_needed, quote_needed, running, open_orders,
                    buy_trades, sell_trades, last_trade, iter, bid_ask,
                    current_balances, db, exit_code, account, caught, sync,
                    take_profit_entries, signal_at >>

\* a loop that does not test self.running
SleepUnguarded ==
    /\ pc = "sleep"
    /\ pc' = "fetch"
    /\ bid_ask' = None
    /\ current_balances' = None
    /\ sync' = None
    /\ last_eval' = None
    /\ caught' = FALSE
    /\ UNCHANGED << store_vars, call, result, config, orders_df, base_needed, quote_needed, running,
                    open_orders, buy_trades, sell_trades, last_trade, last_pnl_check,
                    last_simulated_balances, iter, db, exit_code, account,
                    take_profit_entries, close_out, signal_at >>

\* time.sleep and the test of "while self.running"
Sleep ==
    /\ pc = "sleep"
    /\ pc' = IF running THEN "fetch" ELSE "shutdown"
    /\ bid_ask' = None
    /\ current_balances' = None
    /\ sync' = None
    /\ last_eval' = None
    /\ caught' = FALSE
    /\ UNCHANGED << store_vars, call, result, config, orders_df, base_needed, quote_needed, running, open_orders,
                    buy_trades, sell_trades, last_trade, last_pnl_check,
                    last_simulated_balances, iter, db, exit_code, account,
                    take_profit_entries, close_out, signal_at >>

\* the positions of the process inside the try block of start
InTry == { "fetch", "sync", "pnl", "take_profit", "sleep" }

\* a stop signal whose handler closes the positions before the shutdown
KeyboardInterruptClosing ==
    /\ pc \in { "fetch", "sync", "pnl", "take_profit", "sleep" }
    /\ signal_at' = pc
    /\ pc' = "shutdown"
    /\ close_out' = Some(close_all_positions(open_orders, test_mode, {},
                                             [ BTC |-> base_needed, FDUSD |-> 0 ]))
    /\ bid_ask' = None
    /\ current_balances' = None
    /\ sync' = None
    /\ last_eval' = None
    /\ caught' = FALSE
    /\ UNCHANGED << store_vars, call, result, config, orders_df, base_needed, quote_needed, running,
                    open_orders, buy_trades, sell_trades, last_trade, last_pnl_check,
                    last_simulated_balances, iter, db, exit_code, account,
                    take_profit_entries >>

\* KeyboardInterrupt: raised in the main thread wherever it is.  It is not an
\* Exception, so no except clause of _trading_loop or _enter_take_profit_mode
\* catches it; the frames of the iteration are unwound with their locals,
\* start's "except KeyboardInterrupt" logs, and finally runs _shutdown.
KeyboardInterrupt ==
    /\ pc \in InTry
    /\ signal_at' = pc
    /\ pc' = "shutdown"
    /\ bid_ask' = None
    /\ current_balances' = None
    /\ sync' = None
    /\ last_eval' = None
    /\ caught' = FALSE
    /\ UNCHANGED << store_vars, call, result, config, orders_df, base_needed, quote_needed, running, open_orders,
                    buy_trades, sell_trades, last_trade, last_pnl_check,
                    last_simulated_balances, iter, db, exit_code, account,
                    take_profit_entries, close_out >>

\* _shutdown, called from the finally clause of start: the final PnL, then
\* the bot_shutdown record.  In live mode a failing orderbook or balance
\* request makes _calculate_final_pnl raise (pnl_ok); the write may raise
\* (write_ok).  Either leaves start with the exception, and main returns 1.
Shutdown ==
    /\ pc = "shutdown"
    /\ \E pnl_ok \in BOOLEAN, write_ok \in BOOLEAN :
         /\ (test_mode => pnl_ok)
         /\ IF pnl_ok /\ write_ok
              THEN /\ db' = [ db EXCEPT !.bot_shutdown = @ + 1 ]
                   /\ exit_code' = Some(0)
              ELSE /\ exit_code' = Some(1)
                   /\ UNCHANGED db
    /\ pc' = "exited"
    /\ UNCHANGED << store_vars, call, result, config, orders_df, base_needed, quote_needed, running, open_orders,
                    buy_trades, sell_trades, last_trade, last_pnl_check,
                    last_simulated_balances, iter, bid_ask, current_balances, account,
                    caught, sync, last_eval, take_profit_entries, close_out,
                    signal_at >>

Next ==
    \/ Construct
    \/ Start
    \/ IterFetch
    \/ IterSync
    \/ IterPnl
    \/ TakeProfit
    \/ Sleep
    \/ KeyboardInterrupt
    \/ Shutdown

Spec == Init /\ [][Next]_vars

(***************************************************************************)
(* The lifecycle of the bot, read off the position of the process          *)
(***************************************************************************)
\* the positions inside one call of _trading_loop and the sleep after it
InLoop == { "fetch", "sync", "pnl", "sleep" }

\* A start that raised (pc = "crashed") stays in the state it raised in.
state ==
    CASE pc = "INITIALIZING" -> "INITIALIZING"
      [] pc = "VERIFYING_FUNDS" -> "VERIFYING_FUNDS"
      [] pc = "ABORTED" -> "ABORTED"
      [] pc = "crashed" ->
            IF running THEN "RUNNING"
            ELSE IF orders_df = << >> THEN "INITIALIZING" ELSE "VERIFYING_FUNDS"
      [] pc \in InLoop -> IF running THEN "RUNNING" ELSE "TAKE_PROFIT"
      [] pc = "take_profit" -> "TAKE_PROFIT"
      [] pc \in { "shutdown", "exited" } -> "SHUTDOWN"

(***************************************************************************)
(* Claims                                                                  *)
(***************************************************************************)
\* the claim's comparison: (total_pnl / max(1, elapsed_days)) /
\* initial_investment is strictly below the target (initial_investment > 0)
RoiBelowTarget(e) ==
    e.total_pnl * config.base.daily_roi_target_den
      < config.base.daily_roi_target_num * Max(1, e.elapsed_days) * e.initial_investment

RoiAtTarget(e) ==
    e.total_pnl * config.base.daily_roi_target_den
      = config.base.daily_roi_target_num * Max(1, e.elapsed_days) * e.initial_investment

\* C1: a PnL evaluation during RUNNING whose daily_roi is strictly below the
\* target leaves the bot RUNNING; one whose daily_roi is at or above the
\* target moves it to TAKE_PROFIT; TAKE_PROFIT is never entered twice, and
\* has been entered once whenever the bot is in it.
C1_DailyRoiCrossing ==
    /\ last_eval # None =>
         IF RoiBelowTarget(last_eval[1])
           THEN state = "RUNNING" /\ pc = "sleep" /\ take_profit_entries = 0
           ELSE state = "TAKE_PROFIT" /\ pc = "take_profit" /\ take_profit_entries = 1
    /\ take_profit_entries <= 1
    /\ (state = "TAKE_PROFIT" => take_profit_entries = 1)

\* an evaluation whose daily_roi equals the target has entered TAKE_PROFIT
C1_Witness ==
    /\ last_eval # None
    /\ RoiAtTarget(last_eval[1])
    /\ state = "TAKE_PROFIT"

\* the edges the claim C2 allows, and those of the code
ClaimedEdges ==
    { << "INITIALIZING", "VERIFYING_FUNDS" >>, << "VERIFYING_FUNDS", "RUNNING" >>,
      << "RUNNING", "TAKE_PROFIT" >>, << "TAKE_PROFIT", "SHUTDOWN" >>,
      << "VERIFYING_FUNDS", "ABORTED" >> }
CodeEdges == ClaimedEdges \cup { << "RUNNING", "SHUTDOWN" >> }

\* a step follows the edges, leaves the terminal states alone, and once
\* RUNNING is left starts no iteration and changes no tracked order
FollowsEdges(edges) ==
    /\ state' # state => << state, state' >> \in edges
    /\ state \in { "SHUTDOWN", "ABORTED" } => state' = state
    /\ state \in { "TAKE_PROFIT", "SHUTDOWN", "ABORTED" } =>
         iter' = iter /\ open_orders' = open_orders

C3_ExactlyOneShutdownRecord ==
    /\ db.bot_shutdown <= 1
    /\ pc = "exited" => db.bot_shutdown = 1

C5_SoftFail ==
    [][ /\ caught' => pc' = "sleep" /\ state' = "RUNNING" /\ exit_code' = None
        /\ (caught /\ pc' # pc /\ signal_at' = "None") =>
              pc' = "fetch" /\ state' = "RUNNING" ]_vars

\* a trade write that raised in the middle of a simulated sync pass
C5_Witness ==
    /\ caught
    /\ test_mode
    /\ sync # None
    /\ pc = "sleep"

SecondPass ==
    manage_grid_orders(SyncStart(open_orders, last_trade, buy_trades, sell_trades),
                       test_mode, orders_df, config.grid_max_open_orders,
                       current_balances[1], bid_ask[1], bid_ask[2],
                       last_simulated_balances, iter + 1, FALSE, 0)

\* C7: a sync pass run right after a completed pass, with the same bid/ask,
\* the same balances and the open orders the first pass left, places
\* nothing, records no trade and leaves the open orders unchanged
C7_SyncIdempotent ==
    (pc = "pnl" /\ sync # None) =>
        /\ SecondPass.placed = {}
        /\ SecondPass.trades = << >>
        /\ SecondPass.open_orders = open_orders

\* C8: every order a sync pass places has a BUY price at most the bid and a
\* SELL price at least the ask of the quote the pass was given
C8_NoCrossingPlacement ==
    (sync # None /\ bid_ask # None) =>
        \A o \in sync[1].placed :
            /\ o.side = "BUY" => o.price <= bid_ask[1]
            /\ o.side = "SELL" => o.price >= bid_ask[2]

\* the (price, side) pairs of a sequence of candidates
PairsOf(cands) == { << cands[i][2].price, cands[i][1] >> : i \in DOMAIN cands }

\* C10: a completed sync pass has placed an order for exactly the candidates
\* that had no open order of the same (price, side) when placement began
C10_PlacedIffMissing ==
    (pc = "pnl" /\ sync # None) =>
        { << o.price, o.side >> : o \in sync[1].placed }
          = PairsOf(Candidates(get_orders_for_price_range(
                        orders_df, (bid_ask[1] + bid_ask[2]) \div 2,
                        config.grid_max_open_orders)))
            \ sync[1].open_order_prices

(***************************************************************************)
(* get_orders_for_price_range applied on its own                           *)
(***************************************************************************)
\* ladder prices range over 1..MaxLadderPrice
MaxLadderPrice == 5

\* the rows of a ladder with the prices S, as calculate_grid_orders builds
\* them before sorting
RECURSIVE LadderRows(_)
LadderRows(S) ==
    IF S = {} THEN << >>
    ELSE LET p == CHOOSE x \in S : \A y \in S : x >= y
         IN  << [ price |-> p, order_size_base |-> 1, order_size_quote |-> p ] >>
             \o LadderRows(S \ {p})

\* the ladders a GridCalculator may hold: sorted ascending by price
Ladders == { calculate_balances(SortByPrice(LadderRows(S))) : S \in SUBSET (1..MaxLadderPrice) }

InitRange ==
    /\ pc = "range"
    /\ call \in { Some([ orders_df |-> df, current_price |-> p, max_orders |-> n ]) :
                    df \in Ladders, p \in 0..(MaxLadderPrice + 1), n \in 1..MaxOpenOrders }
    /\ result = None
    /\ config = [ trading_mode |-> "test", grid_max_open_orders |-> call[1].max_orders,
                  base |-> BaseConfig ]
    /\ orders_df = call[1].orders_df
    /\ base_needed = 0
    /\ quote_needed = 0
    /\ running = FALSE
    /\ open_orders = {}
    /\ buy_trades = 0
    /\ sell_trades = 0
    /\ last_trade = None
    /\ last_pnl_check = "initial"
    /\ last_simulated_balances = None
    /\ iter = 0
    /\ bid_ask = None
    /\ current_balances = None
    /\ db = EmptyDb
    /\ exit_code = None
    /\ account = None
    /\ caught = FALSE
    /\ sync = None
    /\ last_eval = None
    /\ take_profit_entries = 0
    /\ close_out = None
    /\ signal_at = "None"
    /\ NoStore

\* the call self.grid_calculator.get_orders_for_price_range(orders_df, p, N)
ApplyRange ==
    /\ pc = "range"
    /\ result = None
    /\ result' = Some(get_orders_for_price_range(call[1].orders_df, call[1].current_price,
                                                 call[1].max_orders))
    /\ UNCHANGED << store_vars, pc, config, orders_df, base_needed, quote_needed, running,
                    open_orders, buy_trades, sell_trades, last_trade, last_pnl_check,
                    last_simulated_balances, iter, bid_ask, current_balances, db,
                    exit_code, account, caught, sync, last_eval, take_profit_entries,
                    close_out, signal_at, call >>

NextRange == ApplyRange

SpecRange == InitRange /\ [][NextRange]_vars

RowsOf(seq) == { seq[i] : i \in DOMAIN seq }

\* C9: the buy candidates are exactly the min(N, count) levels strictly
\* below p closest to p, the sell candidates exactly the min(N, count)
\* levels strictly above p closest to p, and a level at p is in neither
C9_ClosestLevels ==
    result # None =>
        LET p == call[1].current_price
            n == call[1].max_orders
            levels == RowsOf(call[1].orders_df)
            below == { r \in levels : r.price < p }
            above == { r \in levels : r.price > p }
            buys == RowsOf(result[1].buy_orders)
            sells == RowsOf(result[1].sell_orders)
        IN  /\ buys \subseteq below
            /\ Len(result[1].buy_orders) = Cardinality(buys)
            /\ Cardinality(buys) = Min(n, Cardinality(below))
            /\ \A r \in buys, x \in below \ buys : x.price < r.price
            /\ sells \subseteq above
            /\ Len(result[1].sell_orders) = Cardinality(sells)
            /\ Cardinality(sells) = Min(n, Cardinality(above))
            /\ \A r \in sells, x \in above \ sells : x.price > r.price
            /\ \A r \in levels : r.price = p => r \notin buys \cup sells

\* a call with a level at p and more than N levels on either side of it
C9_Witness ==
    /\ result # None
    /\ \E i \in DOMAIN call[1].orders_df :
           call[1].orders_df[i].price = call[1].current_price
    /\ Cardinality({ i \in DOMAIN call[1].orders_df :
                       call[1].orders_df[i].price < call[1].current_price })
         > call[1].max_orders
    /\ Cardinality({ i \in DOMAIN call[1].orders_df :
                       call[1].orders_df[i].price > call[1].current_price })
         > call[1].max_orders
    /\ Len(result[1].buy_orders) = call[1].max_orders

(***************************************************************************)
(* Order sync: tracked orders and simulated fills                          *)
(***************************************************************************)
SideCount(orders, side) == Cardinality({ o \in orders : o.side = side })

\* C11: the tracked open BUY orders and the tracked open SELL orders are
\* each at most grid_max_open_orders, after any sequence of ticks
C11_OpenOrdersPerSide ==
    /\ SideCount(open_orders, "BUY") <= config.grid_max_open_orders
    /\ SideCount(open_orders, "SELL") <= config.grid_max_open_orders

\* the change of the simulated base balance the sync pass of this tick saw
TickDelta ==
    IF last_simulated_balances = None THEN 0
    ELSE current_balances[1].BTC - last_simulated_balances[1].BTC

\* the trades are those of tracked orders of one side beyond the quote, in
\* strictly descending (BUY) or ascending (SELL) price order
FillsOf(trades, side, tracked, bid_price, ask_price) ==
    /\ \A i \in DOMAIN trades :
         /\ trades[i].side = side
         /\ IF side = "BUY" THEN trades[i].price > bid_price
                            ELSE trades[i].price < ask_price
         /\ \E o \in tracked : /\ o.side = side
                               /\ o.price = trades[i].price
                               /\ o.quantity = trades[i].quantity
    /\ \A i, j \in DOMAIN trades :
         i < j => IF side = "BUY" THEN trades[i].price > trades[j].price
                                  ELSE trades[i].price < trades[j].price

\* C12: in simulated mode a tick whose base balance rose records fills only
\* for tracked BUY orders above the bid, highest price first; one whose
\* balance fell only for tracked SELL orders below the ask, lowest price
\* first; a tick with no change, or the first tick, records none
C12_SimulatedFills ==
    (sync # None /\ test_mode) =>
        /\ (TickDelta = 0 \/ iter = 1) => sync[1].trades = << >>
        /\ TickDelta > 0 =>
             FillsOf(sync[1].trades, "BUY", sync[1].open_before, bid_ask[1], bid_ask[2])
        /\ TickDelta < 0 =>
             FillsOf(sync[1].trades, "SELL", sync[1].open_before, bid_ask[1], bid_ask[2])

\* a tick that recorded the fills of two BUY orders
C12_Witness ==
    /\ sync # None
    /\ test_mode
    /\ TickDelta > 0
    /\ Len(sync[1].trades) = 2

RECURSIVE SumQuantity(_, _)
SumQuantity(trades, i) ==
    IF i > Len(trades) THEN 0 ELSE trades[i].quantity + SumQuantity(trades, i + 1)

\* C13: in simulated mode the total quantity of the trades recorded on a
\* tick is at most the absolute change of the simulated base balance
C13_FillsWithinDelta ==
    (sync # None /\ test_mode) =>
        SumQuantity(sync[1].trades, 1)
          <= (IF TickDelta >= 0 THEN TickDelta ELSE 0 - TickDelta)

(***************************************************************************)
(* _place_order applied on its own                                         *)
(***************************************************************************)
\* the bot's fields that a single call leaves as __init__ set them
Unstarted ==
    /\ running = FALSE
    /\ buy_trades = 0
    /\ sell_trades = 0
    /\ last_trade = None
    /\ last_pnl_check = "initial"
    /\ last_simulated_balances = None
    /\ iter = 0
    /\ bid_ask = None
    /\ current_balances = None
    /\ db = EmptyDb
    /\ exit_code = None
    /\ account = None
    /\ caught = FALSE
    /\ sync = None
    /\ last_eval = None
    /\ take_profit_entries = 0
    /\ close_out = None
    /\ signal_at = "None"
    /\ NoStore

\* the orders of the bot's ladder a sync pass may have placed at time now
LadderOrders(now) ==
    LET df == calculate_grid_orders(BaseConfig, Venue).orders_df
    IN  { [ orderId |-> << now, i >>, side |-> sd, quantity |-> df[i].order_size_base,
            price |-> df[i].price ] : i \in DOMAIN df, sd \in { "BUY", "SELL" } }

\* a bot after __init__, tracking orders in test mode and none in live mode,
\* about to place one more order
InitPlace ==
    /\ pc = "place"
    /\ config \in Configs
    /\ config.grid_max_open_orders = MaxOpenOrders
    /\ orders_df = calculate_grid_orders(config.base, Venue).orders_df
    /\ base_needed = calculate_grid_orders(config.base, Venue).base_needed
    /\ quote_needed = calculate_grid_orders(config.base, Venue).quote_needed
    /\ open_orders \in SUBSET LadderOrders(1)
    /\ (~test_mode => open_orders = {})
    /\ call \in { Some([ order |-> o ]) : o \in LadderOrders(2) }
    /\ result = None
    /\ Unstarted

\* the call self._place_order(side, quantity, price)
ApplyPlace ==
    /\ pc = "place"
    /\ result = None
    /\ result' = Some(place_order(open_orders, test_mode, call[1].order))
    /\ open_orders' = result'[1].open_orders
    /\ UNCHANGED << store_vars, pc, config, orders_df, base_needed, quote_needed, running,
                    buy_trades, sell_trades, last_trade, last_pnl_check,
                    last_simulated_balances, iter, bid_ask, current_balances, db,
                    exit_code, account, caught, sync, last_eval, take_profit_entries,
                    close_out, signal_at, call >>

NextPlace == ApplyPlace

SpecPlace == InitPlace /\ [][NextPlace]_vars

\* C15: a placement whose venue call raises leaves the tracked open orders
\* as they were and returns to its caller without raising, so the loop over
\* the candidates goes on; a placement that succeeds tracks the order
C15_FailedPlacement ==
    [][ result' # result =>
          /\ ~result'[1].raised
          /\ result'[1].failed => open_orders' = open_orders
          /\ ~result'[1].failed => open_orders' = open_orders \cup { call[1].order } ]_vars

\* a placement failed and the order is not tracked
C15_Witness ==
    /\ result # None
    /\ result[1].failed
    /\ call[1].order \notin open_orders

OutsideLadder ==
    LET mid == (bid_ask[1] + bid_ask[2]) \div 2
    IN  mid < orders_df[1].price \/ mid > orders_df[Len(orders_df)].price

\* C17: in simulated mode an iteration gets through the boundary check and
\* the simulated balances whatever the mid price, and with a mid price below
\* the lowest or above the highest ladder level its order sync raises only
\* when a trade write does (the counters then run ahead of the stored
\* trades); the bot stays RUNNING
C17_BoundaryCrossing ==
    [][ /\ (pc = "fetch" /\ pc' # "fetch" /\ signal_at' = "None" /\ test_mode) =>
              /\ pc' = "sync"
              /\ bid_ask' # None
              /\ current_balances' # None
              /\ state' = "RUNNING"
        /\ (pc = "sync" /\ pc' # "sync" /\ signal_at' = "None" /\ test_mode
            /\ OutsideLadder) =>
              /\ state' = "RUNNING"
              /\ IF caught' THEN buy_trades' + sell_trades' > Len(db'.trades)
                            ELSE pc' = "pnl" ]_vars

\* a sync pass completed with the mid price above the highest ladder level
C17_Witness ==
    /\ pc = "pnl"
    /\ test_mode
    /\ sync # None
    /\ (bid_ask[1] + bid_ask[2]) \div 2 > orders_df[Len(orders_df)].price
    /\ current_balances[1].BTC = 0

(***************************************************************************)
(* calculate_grid_orders applied on its own                                *)
(***************************************************************************)
\* valid configurations of the ladder and ticks of a venue, in model units
GridConfigs ==
    { [ spot_entry_price |-> e, spot_down_range_percent |-> d,
        spot_up_range_percent |-> u, spot_orders_diff_percent |-> s,
        spot_order_size_quote |-> q ] :
        e \in { 10, 20 }, d \in { 10, 20, 50 }, u \in { 10, 20, 50 },
        s \in { 1, 15, 40 }, q \in { 10, 20, 30 } }
GridVenues == { [ price_tick |-> t, size_tick |-> 1 ] : t \in { 1, 2 } }

InitGrid ==
    /\ pc = "grid"
    /\ call \in { Some([ cfg |-> c, venue |-> v ]) : c \in GridConfigs, v \in GridVenues }
    /\ result = None
    /\ config = [ trading_mode |-> "test", grid_max_open_orders |-> 1, base |-> BaseConfig ]
    /\ orders_df = << >>
    /\ base_needed = 0
    /\ quote_needed = 0
    /\ open_orders = {}
    /\ Unstarted

\* the call self.grid_calculator.calculate_grid_orders() of __init__
ApplyGrid ==
    /\ pc = "grid"
    /\ result = None
    /\ result' = Some(calculate_grid_orders(call[1].cfg, call[1].venue))
    /\ orders_df' = result'[1].orders_df
    /\ base_needed' = result'[1].base_needed
    /\ quote_needed' = result'[1].quote_needed
    /\ UNCHANGED << store_vars, pc, config, running, open_orders, buy_trades, sell_trades,
                    last_trade, last_pnl_check, last_simulated_balances, iter, bid_ask,
                    current_balances, db, exit_code, account, caught, sync, last_eval,
                    take_profit_entries, close_out, signal_at, call >>

\* _calculate_simulated_balances applied to the ladder just built, at a mid
\* price inside the ladder or up to one tick outside of it
ApplySimulated ==
    /\ pc = "grid"
    /\ result # None
    /\ current_balances = None
    /\ \E current_price \in (orders_df[1].price - call[1].venue.price_tick)
                              ..(orders_df[Len(orders_df)].price + call[1].venue.price_tick) :
          /\ call' = Some([ cfg |-> call[1].cfg, venue |-> call[1].venue,
                            current_price |-> current_price ])
          /\ current_balances' = Some(calculate_simulated_balances(
                                          orders_df, base_needed, quote_needed, current_price))
    /\ UNCHANGED << store_vars, pc, config, orders_df, base_needed, quote_needed, running, open_orders,
                    buy_trades, sell_trades, last_trade, last_pnl_check,
                    last_simulated_balances, iter, bid_ask, db, exit_code, account, caught,
                    sync, last_eval, take_profit_entries, close_out, signal_at, result >>

NextGrid == ApplyGrid \/ ApplySimulated

SpecGrid == InitGrid /\ [][NextGrid]_vars

\* C18: every level of the ladder calculate_grid_orders returns has
\* base_balance >= 0 and quote_balance >= 0
C18_BalancesNonNegative ==
    result # None =>
        \A i \in DOMAIN orders_df :
            orders_df[i].base_balance >= 0 /\ orders_df[i].quote_balance >= 0

\* a ladder of three levels or more that holds base and quote on the way
C18_Witness ==
    /\ result # None
    /\ Len(orders_df) >= 3
    /\ orders_df[1].base_balance > 0
    /\ orders_df[Len(orders_df)].quote_balance > 0

\* the multiple of tick nearest to v100 / 100, the upper one of two
NearestTick(v100, tick) ==
    CHOOSE m \in 0..(v100 \div 100 + tick) :
        /\ m % tick = 0
        /\ 2 * (100 * m - v100) <= 100 * tick
        /\ 2 * (v100 - 100 * m) < 100 * tick

\* C19: the prices of the ladder are strictly increasing, also where the
\* spacing is too small for the tick; its highest level is max_price rounded
\* to the tick and no level is below min_price rounded to the tick
C19_StrictlyMonotonic ==
    result # None =>
        LET cfg == call[1].cfg
            tick == call[1].venue.price_tick
        IN  /\ Len(orders_df) >= 1
            /\ \A i, j \in DOMAIN orders_df :
                 i < j => orders_df[i].price < orders_df[j].price
            /\ orders_df[Len(orders_df)].price
                 = NearestTick(cfg.spot_entry_price * (100 + cfg.spot_up_range_percent), tick)
            /\ \A i \in DOMAIN orders_df :
                 orders_df[i].price
                   >= NearestTick(cfg.spot_entry_price * (100 - cfg.spot_down_range_percent),
                                  tick)

\* a ladder whose spacing rounds away: neighbouring levels one tick apart
C19_Witness ==
    /\ result # None
    /\ call[1].cfg.spot_orders_diff_percent = 1
    /\ Len(orders_df) >= 3
    /\ \A i \in 1..(Len(orders_df) - 1) :
         orders_df[i + 1].price - orders_df[i].price = call[1].venue.price_tick

RECURSIVE SumAt(_, _, _)
\* sum of df[i][field] over the indices i in S
SumAt(df, field, S) ==
    IF S = {} THEN 0
    ELSE LET i == CHOOSE x \in S : TRUE
         IN  df[i][field] + SumAt(df, field, S \ {i})

\* C20: with the levels ascending by price, base_balance of level i is the sum
\* of order_size_base over the levels above i, and quote_balance of level i
\* the sum of order_size_quote over the levels at or below i
C20_CumulativeBalances ==
    result # None =>
        \A i \in DOMAIN orders_df :
            /\ orders_df[i].order_size_quote = orders_df[i].order_size_base * orders_df[i].price
            /\ orders_df[i].base_balance
                 = SumAt(orders_df, "order_size_base", { j \in DOMAIN orders_df : j > i })
            /\ orders_df[i].quote_balance
                 = SumAt(orders_df, "order_size_quote", { j \in DOMAIN orders_df : j <= i })

\* C21: base_needed and quote_needed are the maxima of the base_balance and
\* quote_balance columns of the ladder, and the simulated balances at any mid
\* price, inside the ladder or outside of it, lie in [0, base_needed] and
\* [0, quote_needed]
C21_FundsCoverSimulatedBalances ==
    result # None =>
        /\ \E i \in DOMAIN orders_df : orders_df[i].base_balance = base_needed
        /\ \E i \in DOMAIN orders_df : orders_df[i].quote_balance = quote_needed
        /\ \A i \in DOMAIN orders_df :
              /\ orders_df[i].base_balance <= base_needed
              /\ orders_df[i].quote_balance <= quote_needed
        /\ current_balances # None =>
              /\ current_balances[1].BTC >= 0
              /\ current_balances[1].BTC <= base_needed
              /\ current_balances[1].FDUSD >= 0
              /\ current_balances[1].FDUSD <= quote_needed

\* the balances simulated above the highest level of a ladder of three levels
\* or more: no base, and all of quote_needed
C21_Witness ==
    /\ result # None
    /\ current_balances # None
    /\ Len(orders_df) >= 3
    /\ call[1].current_price > orders_df[Len(orders_df)].price
    /\ current_balances[1].BTC = 0
    /\ current_balances[1].FDUSD = quote_needed
    /\ quote_needed > 0

\* C22: entry_index is the row of the ascending ladder whose price is closest
\* to spot_entry_price, the lower row of two equally close ones
C22_EntryIndex ==
    result # None =>
        LET e == call[1].cfg.spot_entry_price
            k == result[1].entry_index
        IN  /\ k \in DOMAIN orders_df
            /\ \A j \in DOMAIN orders_df :
                  /\ Abs(orders_df[k].price - e) <= Abs(orders_df[j].price - e)
                  /\ Abs(orders_df[k].price - e) = Abs(orders_df[j].price - e) => k <= j

\* a ladder with one level below and one above spot_entry_price at the same
\* distance, and none at it
C22_Witness ==
    /\ result # None
    /\ \E i, j \in DOMAIN orders_df :
          /\ i < j
          /\ call[1].cfg.spot_entry_price - orders_df[i].price
               = orders_df[j].price - call[1].cfg.spot_entry_price
          /\ orders_df[j].price > call[1].cfg.spot_entry_price
          /\ result[1].entry_index = i

(***************************************************************************)
(* main(): validate_config, then the ladder of TraderBot.__init__          *)
(***************************************************************************)
\* _validate_ranges and _validate_positive_values on the fields of the ladder:
\* TRUE where validate_config raises ValueError
validate_config_raises(cfg) ==
    \/ cfg.spot_down_range_percent <= 0 \/ cfg.spot_down_range_percent >= 100
    \/ cfg.spot_up_range_percent <= 0 \/ cfg.spot_up_range_percent >= 100
    \/ cfg.spot_orders_diff_percent <= 0
    \/ cfg.spot_entry_price <= 0
    \/ cfg.spot_order_size_quote <= 0

\* configuration files as an operator may write them, valid or not
RawConfigs ==
    { [ spot_entry_price |-> e, spot_down_range_percent |-> d,
        spot_up_range_percent |-> u, spot_orders_diff_percent |-> s,
        spot_order_size_quote |-> q ] :
        e \in { 0, 10 }, d \in { 0, 20, 100 }, u \in { -10, 20 },
        s \in { 0, 15 }, q \in { 0, 5, 10, 20 } }

InitValidate ==
    /\ pc = "validate"
    /\ call \in { Some([ cfg |-> c, venue |-> v ]) : c \in RawConfigs, v \in GridVenues }
    /\ result = None
    /\ config = [ trading_mode |-> "test", grid_max_open_orders |-> 1, base |-> BaseConfig ]
    /\ orders_df = << >>
    /\ base_needed = 0
    /\ quote_needed = 0
    /\ open_orders = {}
    /\ Unstarted

\* main(): validator.validate_config(args.config); an exception is logged and
\* main returns 1, otherwise TraderBot(config) is constructed
ValidateConfig ==
    /\ pc = "validate"
    /\ IF validate_config_raises(call[1].cfg)
         THEN pc' = "exited" /\ exit_code' = Some(1)
         ELSE pc' = "grid" /\ exit_code' = exit_code
    /\ UNCHANGED << store_vars, config, orders_df, base_needed, quote_needed, running, open_orders,
                    buy_trades, sell_trades, last_trade, last_pnl_check,
                    last_simulated_balances, iter, bid_ask, current_balances, db, account,
                    caught, sync, last_eval, take_profit_entries, close_out, signal_at,
                    call, result >>

NextValidate == ValidateConfig \/ ApplyGrid

SpecValidate == InitValidate /\ [][NextValidate]_vars

\* C23: a configuration with spot_order_size_quote below 10, or with a
\* non-positive down range, up range or order spacing, ends in a configuration
\* error: main exits with 1, no ladder is built and no order is placed
C23_ConfigurationError ==
    LET cfg == call[1].cfg
    IN  ( /\ pc # "validate"
          /\ \/ cfg.spot_order_size_quote < 10
             \/ cfg.spot_down_range_percent <= 0
             \/ cfg.spot_up_range_percent <= 0
             \/ cfg.spot_orders_diff_percent <= 0 )
        => /\ pc = "exited"
           /\ exit_code = Some(1)
           /\ result = None
           /\ orders_df = << >>
           /\ open_orders = {}

(***************************************************************************)
(* Database: the files of data_dir and read_table                          *)
(*                                                                         *)
(* data_dir is a set of files [name, lines]; a name is [table, date, time] *)
(* with time = None for <table>_<YYYYMMDD>.jsonl and Some(t) for a rotated *)
(* <table>_<YYYYMMDD>_<HHMMSS>.jsonl.  A line is a record with the fields  *)
(* of the JSON object and well_formed, FALSE where json.loads raises.      *)
(***************************************************************************)
\* the file of this name in data_dir, where there is one
FileNamed(dir, name) == CHOOSE f \in dir : f.name = name

\* the records one file contributes to read_table: the lines up to the first
\* one json.loads raises on, which ends the with block of that file, and of
\* those the ones of bot_name and bot_run (None: any)
ReadFile(lines, bot_name, bot_run) ==
    LET bad == { i \in DOMAIN lines : ~lines[i].well_formed }
        n == IF bad = {} THEN Len(lines)
             ELSE (CHOOSE i \in bad : \A j \in bad : i <= j) - 1
        Wanted(r) == /\ bot_name = None \/ Some(r.bot_name) = bot_name
                     /\ bot_run = None \/ Some(r.bot_run) = bot_run
    IN  SelectSeq(SubSeq(lines, 1, n), Wanted)

\* sorted(records, key=timestamp): stable, records of one timestamp keep their order
RECURSIVE SortByTimestamp(_)
SortByTimestamp(records) ==
    IF records = << >> THEN << >>
    ELSE
      LET n == Len(records)
          sorted == SortByTimestamp(SubSeq(records, 1, n - 1))
          AtOrBefore(r) == r.timestamp <= records[n].timestamp
          After(r) == r.timestamp > records[n].timestamp
      IN  SelectSeq(sorted, AtOrBefore) \o << records[n] >> \o SelectSeq(sorted, After)

RECURSIVE ReadListed(_, _, _, _, _)
\* the loop of read_table over listing, the names os.listdir returned: a name
\* of another table is passed over, and so is a file that open() does not
\* find any more
ReadListed(dir, listing, table_name, bot_name, bot_run) ==
    IF listing = << >> THEN << >>
    ELSE
      LET name == Head(listing)
          here == IF name.table = table_name /\ \E f \in dir : f.name = name
                    THEN ReadFile(FileNamed(dir, name).lines, bot_name, bot_run)
                    ELSE << >>
      IN  here \o ReadListed(dir, Tail(listing), table_name, bot_name, bot_run)

\* read_table, given what os.listdir returned
read_table(dir, listing, table_name, bot_name, bot_run) ==
    SortByTimestamp(ReadListed(dir, listing, table_name, bot_name, bot_run))

\* os.listdir: the names of data_dir in any order
Listings(dir) ==
    LET names == { f.name : f \in dir }
        n == Cardinality(names)
    IN  { l \in [1..n -> names] : \A i, j \in 1..n : i # j => l[i] # l[j] }

(***************************************************************************)
(* TraderBot: realized spot PnL                                            *)
(***************************************************************************)
\* str.lower() of a trade's side
Lower(side) ==
    CASE side = "BUY" -> "buy" [] side = "SELL" -> "sell" [] OTHER -> side

RECURSIVE SumTrades(_, _, _)
\* sum(quantity) or sum(quantity * price) over the trades of one side
SumTrades(trades, side, in_quote) ==
    IF trades = << >> THEN 0
    ELSE
      LET t == Head(trades)
          amount == IF Lower(t.side) # side THEN 0
                    ELSE IF in_quote THEN t.quantity * t.price ELSE t.quantity
      IN  amount + SumTrades(Tail(trades), side, in_quote)

\* A variant of calculate_spot_realized_pnl that leaves out the factor
\* min(sell_trades_base, buy_trades_base)
calculate_spot_realized_pnl_per_unit(dir, listing, bot_name) ==
    LET trades == read_table(dir, listing, "trades", Some(bot_name), None)
        buy_trades_base == SumTrades(trades, "buy", FALSE)
        buy_trades_quote == SumTrades(trades, "buy", TRUE)
        sell_trades_base == SumTrades(trades, "sell", FALSE)
        sell_trades_quote == SumTrades(trades, "sell", TRUE)
    IN  IF trades = << >> \/ buy_trades_base = 0 \/ sell_trades_base = 0
          THEN [ num |-> 0, den |-> 1 ]
          ELSE [ num |-> sell_trades_quote * buy_trades_base
                          - buy_trades_quote * sell_trades_base,
                 den |-> sell_trades_base * buy_trades_base ]

\* calculate_spot_realized_pnl(bot_name) as the fraction num / den, den > 0:
\* (sell_quote / sell_base - buy_quote / buy_base) * min(sell_base, buy_base)
\* over read_table('trades', bot_name)
calculate_spot_realized_pnl(dir, listing, bot_name) ==
    LET trades == read_table(dir, listing, "trades", Some(bot_name), None)
        buy_trades_base == SumTrades(trades, "buy", FALSE)
        buy_trades_quote == SumTrades(trades, "buy", TRUE)
        sell_trades_base == SumTrades(trades, "sell", FALSE)
        sell_trades_quote == SumTrades(trades, "sell", TRUE)
    IN  IF trades = << >> \/ buy_trades_base = 0 \/ sell_trades_base = 0
          THEN [ num |-> 0, den |-> 1 ]
          ELSE [ num |-> (sell_trades_quote * buy_trades_base
                           - buy_trades_quote * sell_trades_base)
                          * Min(sell_trades_base, buy_trades_base),
                 den |-> sell_trades_base * buy_trades_base ]

(***************************************************************************)
(* The PnL functions of TraderBot applied on their own                     *)
(***************************************************************************)
\* trades of this run a trade history holds at most
MaxHistory == 4

TradePrices == { 100, 110, 120, 130 }
Fills == [ side : { "BUY", "SELL" }, price : TradePrices ]

\* the line save_to_db('trades', trade_data, bot_name, bot_run) appends
TradeLine(bot_run, timestamp, fill) ==
    [ well_formed |-> TRUE, timestamp |-> timestamp, bot_name |-> "DefaultBot",
      bot_run |-> bot_run, side |-> fill.side, price |-> fill.price, quantity |-> 1 ]

\* the trades file after an earlier run of the bot and then this one
TradesFile(earlier, own) ==
    [ name |-> [ table |-> "trades", date |-> 1, time |-> None ],
      lines |-> [ k \in 1..(Len(earlier) + Len(own)) |->
                    IF k <= Len(earlier)
                      THEN TradeLine("run_1", k, earlier[k])
                      ELSE TradeLine("run_2", k, own[k - Len(earlier)]) ] ]

Histories == UNION { [1..k -> Fills] : k \in 0..MaxHistory }
EarlierHistories == { << >> } \cup { << f >> : f \in { x \in Fills : x.price \in { 100, 130 } } }
RoundTrips ==
    { << >> } \cup { << [ side |-> "BUY", price |-> p ], [ side |-> "SELL", price |-> q ] >> :
                       p \in TradePrices, q \in TradePrices }

\* the calls: calculate_spot_realized_pnl over a trades file,
\* _calculate_spot_unrealized_pnl at a mid price with a trades file on disk,
\* _calculate_options_pnl with the prices and the quote it fetches
PnlCalls ==
    { [ fn |-> "realized", data_dir |-> { TradesFile(e, h) },
        bot_name |-> "DefaultBot", bot_run |-> "run_2" ] :
        e \in EarlierHistories, h \in Histories }
    \cup
    { [ fn |-> "unrealized", data_dir |-> { TradesFile(<< >>, h) },
        bot_name |-> "DefaultBot", bot_run |-> "run_2", current_price |-> p ] :
        h \in RoundTrips,
        p \in (orders_df[1].price - Venue.price_tick)
              ..(orders_df[Len(orders_df)].price + Venue.price_tick) }
    \cup
    { [ fn |-> "options", call_price |-> c, put_price |-> p, bid_ask |-> q, failed |-> f ] :
        c \in OptionPrices, p \in OptionPrices, q \in Quotes, f \in BOOLEAN }

InitPnl ==
    /\ pc = "calc"
    /\ config = [ trading_mode |-> "test", grid_max_open_orders |-> 1, base |-> BaseConfig ]
    /\ orders_df = calculate_grid_orders(config.base, Venue).orders_df
    /\ base_needed = calculate_grid_orders(config.base, Venue).base_needed
    /\ quote_needed = calculate_grid_orders(config.base, Venue).quote_needed
    /\ call \in { Some(c) : c \in PnlCalls }
    /\ result = None
    /\ open_orders = {}
    /\ Unstarted

\* spot_realized_pnl = self.calculate_spot_realized_pnl(self.bot_name)
ApplyRealized ==
    /\ pc = "calc"
    /\ result = None
    /\ call[1].fn = "realized"
    /\ \E listing \in Listings(call[1].data_dir) :
          result' = Some(calculate_spot_realized_pnl(call[1].data_dir, listing,
                                                     call[1].bot_name))
    /\ UNCHANGED << store_vars, pc, config, orders_df, base_needed, quote_needed, running, open_orders,
                    buy_trades, sell_trades, last_trade, last_pnl_check,
                    last_simulated_balances, iter, bid_ask, current_balances, db, exit_code,
                    account, caught, sync, last_eval, take_profit_entries, close_out,
                    signal_at, call >>

\* spot_unrealized_pnl = self._calculate_spot_unrealized_pnl(), in test mode
ApplyUnrealized ==
    /\ pc = "calc"
    /\ result = None
    /\ call[1].fn = "unrealized"
    /\ current_balances' = Some(calculate_simulated_balances(
                                    orders_df, base_needed, quote_needed,
                                    call[1].current_price))
    /\ result' = Some(calculate_spot_unrealized_pnl(
                          config.base, base_needed, quote_needed, call[1].current_price,
                          current_balances'[1]))
    /\ UNCHANGED << store_vars, pc, config, orders_df, base_needed, quote_needed, running, open_orders,
                    buy_trades, sell_trades, last_trade, last_pnl_check,
                    last_simulated_balances, iter, bid_ask, db, exit_code, account, caught,
                    sync, last_eval, take_profit_entries, close_out, signal_at, call >>

\* options_data = self._calculate_options_pnl()
ApplyOptions ==
    /\ pc = "calc"
    /\ result = None
    /\ call[1].fn = "options"
    /\ result' = Some(calculate_options_pnl(
                          config.base, call[1].call_price, call[1].put_price,
                          call[1].bid_ask[1], call[1].failed))
    /\ UNCHANGED << store_vars, pc, config, orders_df, base_needed, quote_needed, running, open_orders,
                    buy_trades, sell_trades, last_trade, last_pnl_check,
                    last_simulated_balances, iter, bid_ask, current_balances, db, exit_code,
                    account, caught, sync, last_eval, take_profit_entries, close_out,
                    signal_at, call >>

NextPnl == ApplyRealized \/ ApplyUnrealized \/ ApplyOptions

SpecPnl == InitPnl /\ [][NextPnl]_vars

\* the trades file of a run with the trades BUY 1@100, BUY 1@120, SELL 1@130,
\* SELL 1@110 and no earlier run
ExampleTrades ==
    { TradesFile(<< >>, << [ side |-> "BUY", price |-> 100 ], [ side |-> "BUY", price |-> 120 ],
                          [ side |-> "SELL", price |-> 130 ],
                          [ side |-> "SELL", price |-> 110 ] >>) }

\* C24 as stated: for the trades BUY 1@100, BUY 1@120, SELL 1@130, SELL 1@110
\* calculate_spot_realized_pnl returns 10
C24_Original ==
    (result # None /\ call[1].fn = "realized" /\ call[1].data_dir = ExampleTrades)
        => result[1].num = 10 * result[1].den

\* C24: for the trades BUY 1@100, BUY 1@120, SELL 1@130, SELL 1@110
\* calculate_spot_realized_pnl returns
\* ((130 + 110) / 2 - (100 + 120) / 2) * min(2, 2) = 20
C24_AverageCostExample ==
    (result # None /\ call[1].fn = "realized" /\ call[1].data_dir = ExampleTrades)
        => result[1].num = 20 * result[1].den

\* calculate_spot_realized_pnl has returned for the four trades of the example
C24_Witness ==
    /\ result # None
    /\ call[1].fn = "realized"
    /\ call[1].data_dir = ExampleTrades
    /\ result[1].den = 4

\* the lines of the trades file that this run wrote
OwnTrades(c) ==
    LET f == CHOOSE x \in c.data_dir : TRUE
        Own(r) == r.bot_run = c.bot_run
    IN  SelectSeq(f.lines, Own)

\* C25: the realized spot PnL is the average-cost value over the trades of
\* this run only, whatever an earlier run of the same bot_name traded, and 0
\* where this run has no BUY or no SELL
C25_OwnRunOnly ==
    (result # None /\ call[1].fn = "realized") =>
        LET own == OwnTrades(call[1])
            bb == SumTrades(own, "buy", FALSE)
            bq == SumTrades(own, "buy", TRUE)
            sb == SumTrades(own, "sell", FALSE)
            sq == SumTrades(own, "sell", TRUE)
        IN  IF bb = 0 \/ sb = 0
              THEN result[1].num = 0
              ELSE result[1].num * (sb * bb) = (sq * bb - bq * sb) * Min(sb, bb) * result[1].den

\* C26: the unrealized spot PnL is current_base * mid + current_quote
\* - (initial_base * entry_price + initial_quote) + realized, with realized
\* the average-cost realized spot PnL of the run
C26_UnrealizedAddsRealized ==
    (result # None /\ call[1].fn = "unrealized") =>
        \A listing \in Listings(call[1].data_dir) :
            LET realized == calculate_spot_realized_pnl(call[1].data_dir, listing,
                                                        call[1].bot_name)
                current_value == current_balances[1].BTC * call[1].current_price
                                 + current_balances[1].FDUSD
                initial_value == base_needed * config.base.spot_entry_price + quote_needed
            IN  result[1] * realized.den
                  = (current_value - initial_value) * realized.den + realized.num

\* C27: the PnL of each option leg is (exit price - cost / size) * size times
\* the spot mid price (bid + ask) / 2, and the total is the sum of the two
C27_OptionsAtMid ==
    (result # None /\ call[1].fn = "options" /\ ~call[1].failed) =>
        LET cfg == config.base
            bid == call[1].bid_ask[1]
            ask == call[1].bid_ask[2]
        IN  /\ 2 * result[1].call_pnl
                 = (call[1].call_price * cfg.call_option_size_base
                    - cfg.call_option_initial_cost_base) * (bid + ask)
            /\ 2 * result[1].put_pnl
                 = (call[1].put_price * cfg.put_option_size_base
                    - cfg.put_option_initial_cost_base) * (bid + ask)
            /\ result[1].total_pnl = result[1].call_pnl + result[1].put_pnl

(***************************************************************************)
(* Database: one process in save_to_db, one in read_table, and the clock   *)
(***************************************************************************)
\* writes of the writer
MaxWrites == 4
\* seconds the clock may advance
MaxClock == 3
\* self.max_file_size, counted in lines: a file of more lines is rotated
max_file_size == 1
\* seconds of a day: strftime("%Y%m%d") is utcnow \div DayLength and
\* strftime("%H%M%S") is utcnow % DayLength
DayLength == 2

\* <table>_<YYYYMMDD>.jsonl at time now
CurrentName(table_name, now) ==
    [ table |-> table_name, date |-> now \div DayLength, time |-> None ]
\* <table>_<YYYYMMDD>_<HHMMSS>.jsonl at time now
RotatedName(table_name, now) ==
    [ table |-> table_name, date |-> now \div DayLength, time |-> Some(now % DayLength) ]

\* the lines of the file of this name, none where there is no such file
LinesOf(dir, name) ==
    IF \E f \in dir : f.name = name THEN FileNamed(dir, name).lines ELSE << >>

\* the directory after lines has become the content of the file of this name
WithFile(dir, name, lines) ==
    { f \in dir : f.name # name } \cup { [ name |-> name, lines |-> lines ] }

\* _rotate_file at time now: os.rename of the current file of that moment to
\* the rotated name of that moment, replacing a file of that name; nothing
\* where the current file of that moment does not exist
rotate_file(dir, table_name, now) ==
    LET old == CurrentName(table_name, now)
        new == RotatedName(table_name, now)
    IN  IF \E f \in dir : f.name = old
          THEN WithFile({ f \in dir : f.name # old }, new, LinesOf(dir, old))
          ELSE dir

InitStore ==
    /\ pc = "store"
    /\ config = [ trading_mode |-> "test", grid_max_open_orders |-> 1, base |-> BaseConfig ]
    /\ orders_df = << >>
    /\ base_needed = 0
    /\ quote_needed = 0
    /\ open_orders = {}
    /\ call = None
    /\ result = None
    /\ Unstarted

\* a second passes
Tick ==
    /\ utcnow < MaxClock
    /\ utcnow' = utcnow + 1
    /\ UNCHANGED << bot_vars, data_dir, writer, reader >>

\* save_to_db up to the first bytes of the line reaching the file: the
\* timestamp and the file path are taken, the file is opened for append
SaveOpen ==
    /\ writer.pc = "idle"
    /\ writer.written < MaxWrites
    /\ LET file_path == CurrentName("trades", utcnow)
           line == [ well_formed |-> FALSE, timestamp |-> utcnow, bot_name |-> "DefaultBot",
                     bot_run |-> "run_1", id |-> writer.written + 1 ]
       IN  /\ data_dir' = WithFile(data_dir, file_path,
                                   Append(LinesOf(data_dir, file_path), line))
           /\ writer' = [ writer EXCEPT !.pc = "writing" ] @@ [ file_path |-> file_path ]
    /\ UNCHANGED << bot_vars, utcnow, reader >>

\* the with block of save_to_db is left: the line is complete
SaveClose ==
    /\ writer.pc = "writing"
    /\ LET lines == LinesOf(data_dir, writer.file_path)
       IN  data_dir' = WithFile(data_dir, writer.file_path,
                                [ lines EXCEPT ![Len(lines)].well_formed = TRUE ])
    /\ writer' = [ writer EXCEPT !.pc = "written", !.written = @ + 1 ]
    /\ UNCHANGED << bot_vars, utcnow, reader >>

\* if self._get_file_size(file_path) > self.max_file_size: self._rotate_file(table_name)
SaveRotate ==
    /\ writer.pc = "written"
    /\ IF Len(LinesOf(data_dir, writer.file_path)) > max_file_size
         THEN data_dir' = rotate_file(data_dir, "trades", utcnow)
         ELSE data_dir' = data_dir
    /\ writer' = [ pc |-> "idle", written |-> writer.written ]
    /\ UNCHANGED << bot_vars, utcnow, reader >>

\* the ids of the records whose line is complete
Completed(dir) ==
    UNION { { f.lines[i].id : i \in { k \in DOMAIN f.lines : f.lines[k].well_formed } } :
              f \in dir }

\* read_table('trades'): os.listdir; completed is what was on disk at that moment
ReadList ==
    /\ reader.pc = "idle"
    /\ \E listing \in Listings(data_dir) :
          reader' = [ pc |-> "reading", listing |-> listing, records |-> << >>,
                      completed |-> Completed(data_dir) ]
    /\ UNCHANGED << bot_vars, data_dir, utcnow, writer >>

\* read_table: the next file of the listing is opened and read
ReadNext ==
    /\ reader.pc = "reading"
    /\ reader.listing # << >>
    /\ reader' = [ reader EXCEPT
                     !.listing = Tail(@),
                     !.records = @ \o ReadListed(data_dir, << Head(reader.listing) >>,
                                                 "trades", None, None) ]
    /\ UNCHANGED << bot_vars, data_dir, utcnow, writer >>

\* read_table returns the records sorted
ReadReturn ==
    /\ reader.pc = "reading"
    /\ reader.listing = << >>
    /\ reader' = [ reader EXCEPT !.pc = "done", !.records = SortByTimestamp(@) ]
    /\ UNCHANGED << bot_vars, data_dir, utcnow, writer >>

NextStore ==
    \/ Tick
    \/ SaveOpen
    \/ SaveClose
    \/ SaveRotate
    \/ ReadList
    \/ ReadNext
    \/ ReadReturn

SpecStore == InitStore /\ [][NextStore]_vars

\* the ids of a sequence of records
IdsOf(records) == { records[i].id : i \in DOMAIN records }

\* C28: between writes, no current file is past max_file_size (the write that
\* pushed it past was followed by its rename and the next write started a
\* fresh file), and read_table returns every record written so far, once
\* each, in ascending order of timestamp
C28_RotationKeepsRecords ==
    writer.pc = "idle" =>
        /\ \A f \in data_dir : f.name.time = None => Len(f.lines) <= max_file_size
        /\ \A listing \in Listings(data_dir) :
              LET records == read_table(data_dir, listing, "trades", None, None)
              IN  /\ IdsOf(records) = 1..writer.written
                  /\ Len(records) = writer.written
                  /\ \A i, j \in DOMAIN records :
                        i < j => records[i].timestamp <= records[j].timestamp

\* C30: a read_table running while save_to_db appends and rotates returns
\* every record whose write was complete when the read began
C30_ConcurrentRead ==
    reader.pc = "done" => reader.completed \subseteq IdsOf(reader.records)

(***************************************************************************)
(* read_table applied on its own to files that may hold corrupt lines      *)
(***************************************************************************)
\* lines of the current file
MaxLines == 3

\* what a line of a file may be: a record of bot A or of bot B, or text that
\* json.loads raises on
LineKinds == { "A", "B", "corrupt" }

LineOf(kind, timestamp) ==
    [ well_formed |-> kind # "corrupt", timestamp |-> timestamp,
      bot_name |-> IF kind = "corrupt" THEN "A" ELSE kind,
      bot_run |-> "run_1", id |-> timestamp ]

\* a rotated file of at most one line and the current file
StoredFiles ==
    { { [ name |-> RotatedName("trades", 0), lines |-> [ k \in 1..Len(r) |-> LineOf(r[k], 0) ] ],
        [ name |-> CurrentName("trades", 0), lines |-> [ k \in 1..Len(c) |-> LineOf(c[k], k) ] ] } :
        r \in { << >> } \cup { << x >> : x \in LineKinds },
        c \in UNION { [1..n -> LineKinds] : n \in 0..MaxLines } }

InitRead ==
    /\ pc = "read"
    /\ call \in { Some([ data_dir |-> d, bot_name |-> b ]) :
                    d \in StoredFiles, b \in { None, Some("A") } }
    /\ result = None
    /\ config = [ trading_mode |-> "test", grid_max_open_orders |-> 1, base |-> BaseConfig ]
    /\ orders_df = << >>
    /\ base_needed = 0
    /\ quote_needed = 0
    /\ open_orders = {}
    /\ Unstarted

\* the call read_table('trades', bot_name)
ApplyRead ==
    /\ pc = "read"
    /\ result = None
    /\ \E listing \in Listings(call[1].data_dir) :
          result' = Some(read_table(call[1].data_dir, listing, "trades",
                                    call[1].bot_name, None))
    /\ UNCHANGED << store_vars, pc, config, orders_df, base_needed, quote_needed, running,
                    open_orders, buy_trades, sell_trades, last_trade, last_pnl_check,
                    last_simulated_balances, iter, bid_ask, current_balances, db, exit_code,
                    account, caught, sync, last_eval, take_profit_entries, close_out,
                    signal_at, call >>

NextRead == ApplyRead

SpecRead == InitRead /\ [][NextRead]_vars

\* the well-formed records of a file that read_table was asked for
WellFormedIds(f, bot_name) ==
    { f.lines[i].id : i \in { k \in DOMAIN f.lines :
                                /\ f.lines[k].well_formed
                                /\ bot_name = None \/ Some(f.lines[k].bot_name) = bot_name } }

\* C29: read_table returns every well-formed record of the table's files,
\* those before a corrupt line and those after it
C29_CorruptLineSkipped ==
    result # None =>
        IdsOf(result[1])
          = UNION { WellFormedIds(f, call[1].bot_name) : f \in call[1].data_dir }

\* C31: a run in its loop or past it has persisted its configuration to the
\* runs table exactly once; whenever a trade, a PnL snapshot or a shutdown
\* record of the run is on disk, so is the configuration; and no persisted
\* key contains api_key, api_secret or password, in whatever case
C31_RunConfigPersistedOnce ==
    /\ db.runs <= 1
    /\ pc \in InLoop \cup { "take_profit", "shutdown", "exited" } => db.runs = 1
    /\ ( \/ db.trades # << >>
         \/ db.spot_stats > 0
         \/ db.options_stats > 0
         \/ db.bot_shutdown > 0 ) => db.runs = 1
    /\ db.runs = 1 =>
          /\ << "trading", "mode" >> \in db.run_config
          /\ << "spot", "market" >> \in db.run_config
          /\ \A k \in db.run_config, sensitive \in Sensitive :
                ~Contains(LowerKey(k), sensitive)
    /\ db.runs = 0 => db.run_config = {}

\* a run with its configuration, a trade and a PnL snapshot on disk
C31_Witness ==
    /\ db.runs = 1
    /\ db.trades # << >>
    /\ db.spot_stats > 0
    /\ Cardinality(db.run_config) = 2

(***************************************************************************)
(* The price fetch of TraderBot applied on its own                         *)
(***************************************************************************)
InitQuote ==
    /\ pc = "quote"
    /\ config \in Configs
    /\ config.grid_max_open_orders = 1
    /\ orders_df = calculate_grid_orders(config.base, Venue).orders_df
    /\ base_needed = calculate_grid_orders(config.base, Venue).base_needed
    /\ quote_needed = calculate_grid_orders(config.base, Venue).quote_needed
    /\ call \in { Some([ first_ok |-> a, retry_ok |-> b, venue_quote |-> q ]) :
                    a \in BOOLEAN, b \in BOOLEAN, q \in Quotes }
    /\ result = None
    /\ open_orders = {}
    /\ Unstarted

\* bid, ask = self._get_current_bid_ask() in _trading_loop: unpacking a number
\* raises TypeError
ApplyBidAsk ==
    /\ pc = "quote"
    /\ result = None
    /\ LET fetched == get_current_bid_ask(config.base, test_mode, call[1].first_ok,
                                          call[1].retry_ok, call[1].venue_quote)
       IN  /\ result' = Some([ fetched |-> fetched, unpack_raised |-> ~fetched.is_pair ])
           /\ bid_ask' = IF fetched.is_pair THEN << fetched.bid, fetched.ask >> ELSE None
    /\ UNCHANGED << store_vars, pc, config, orders_df, base_needed, quote_needed, running,
                    open_orders, buy_trades, sell_trades, last_trade, last_pnl_check,
                    last_simulated_balances, iter, current_balances, db, exit_code,
                    account, caught, sync, last_eval, take_profit_entries, close_out,
                    signal_at, call >>

NextQuote == ApplyBidAsk

SpecQuote == InitQuote /\ [][NextQuote]_vars

\* C32: when the orderbook request and its retry have failed, in test mode
\* the bid and ask the iteration uses are spot_entry_price, and in live mode
\* the price fetch raises
C32_OrderbookFallback ==
    (result # None /\ ~call[1].first_ok /\ ~call[1].retry_ok) =>
        IF test_mode
          THEN /\ ~result[1].unpack_raised
               /\ bid_ask = << config.base.spot_entry_price, config.base.spot_entry_price >>
          ELSE result[1].fetched.raised

(***************************************************************************)
(* main(): the exit code                                                   *)
(***************************************************************************)
\* the longest sleep time.sleep accepts, in seconds (scaled down); a longer
\* one raises OverflowError
MaxSleep == 2

\* values of grid_mode_loop_sleep in a configuration file
LoopSleeps == { 0, 1, MaxSleep + 1 }

\* _validate_positive_values on grid_mode_loop_sleep
validate_loop_sleep_raises(secs) == secs <= 0

\* time.sleep(self.config['grid_mode_loop_sleep']) in the loop of start
sleep_raises(secs) == secs > MaxSleep

\* a signed request that is not simulated: _make_request reads time.time()
\* while time is an unbound local name
signed_request_raises == TRUE

\* the call of _verify_sufficient_funds in start: what it returns, or that
\* the account request raised
verify_sufficient_funds_call(mode_is_test, request_raises, balances, base, quote) ==
    IF ~mode_is_test /\ request_raises THEN "raises"
    ELSE IF verify_sufficient_funds(mode_is_test, balances, base, quote) THEN "True"
    ELSE "False"

\* TraderBot.start: what ended the loop ("user": KeyboardInterrupt, "error":
\* the except Exception clause), what start returned and whether it raised.
\* _trading_loop catches its own exceptions; the sleep after it does not.
start(funds, secs, interrupted_first, shutdown_raises) ==
    IF funds = "raises"
      THEN [ raised |-> TRUE, returned |-> "None", stopped |-> "none" ]
    ELSE IF funds = "False"
      THEN [ raised |-> FALSE, returned |-> "False", stopped |-> "none" ]
    ELSE [ raised |-> shutdown_raises, returned |-> "None",
           stopped |-> IF ~interrupted_first /\ sleep_raises(secs)
                         THEN "error" ELSE "user" ]

\* main(): the exit code, and the step main had reached when it returned
main(validate_only, validation_raises, construct_raises, started) ==
    IF validation_raises THEN [ exit_code |-> 1, reached |-> "validate_config" ]
    ELSE IF validate_only THEN [ exit_code |-> 0, reached |-> "validate_only" ]
    ELSE IF construct_raises THEN [ exit_code |-> 1, reached |-> "TraderBot" ]
    ELSE IF started.raised THEN [ exit_code |-> 1, reached |-> "start" ]
    ELSE [ exit_code |-> 0, reached |-> "start" ]

InitMain ==
    /\ pc = "main"
    /\ config \in Configs
    /\ config.grid_max_open_orders = 1
    /\ orders_df = calculate_grid_orders(config.base, Venue).orders_df
    /\ base_needed = calculate_grid_orders(config.base, Venue).base_needed
    /\ quote_needed = calculate_grid_orders(config.base, Venue).quote_needed
    /\ call \in { Some([ validate_only |-> v, grid_mode_loop_sleep |-> s,
                         construct_ok |-> c, balances |-> b,
                         interrupted_first |-> i, shutdown_ok |-> d ]) :
                    v \in BOOLEAN, s \in LoopSleeps, c \in BOOLEAN, b \in Accounts,
                    i \in BOOLEAN, d \in BOOLEAN }
    /\ test_mode => call[1].construct_ok
    /\ result = None
    /\ open_orders = {}
    /\ Unstarted

ApplyMain ==
    /\ pc = "main"
    /\ result = None
    /\ LET c == call[1]
           funds == verify_sufficient_funds_call(test_mode, signed_request_raises,
                                                 c.balances, base_needed, quote_needed)
           started == start(funds, c.grid_mode_loop_sleep, c.interrupted_first,
                            ~c.shutdown_ok)
           returned == main(c.validate_only,
                            validate_config_raises(config.base)
                              \/ validate_loop_sleep_raises(c.grid_mode_loop_sleep),
                            ~c.construct_ok, started)
       IN  /\ result' = Some([ reached |-> returned.reached, funds |-> funds,
                               started |-> started ])
           /\ exit_code' = Some(returned.exit_code)
    /\ pc' = "exited"
    /\ UNCHANGED << store_vars, config, orders_df, base_needed, quote_needed, running,
                    open_orders, buy_trades, sell_trades, last_trade, last_pnl_check,
                    last_simulated_balances, iter, bid_ask, current_balances, db,
                    account, caught, sync, last_eval, take_profit_entries, close_out,
                    signal_at, call >>

NextMain == ApplyMain

SpecMain == InitMain /\ [][NextMain]_vars

\* C33: main returns 1 when validation raised, when the bot's construction
\* raised, when funds verification kept start from running and when an error
\* ended the run; it returns 0 only for a successful validate-only call or a
\* run that was stopped and shut down without an error
C33_ExitCodes ==
    result # None =>
        LET r == result[1]
            ran == r.reached = "start" /\ r.funds = "True"
        IN  /\ r.reached \in { "validate_config", "TraderBot" } => exit_code = Some(1)
            /\ (r.reached = "start" /\ r.funds # "True") => exit_code = Some(1)
            /\ (ran /\ (r.started.stopped = "error" \/ r.started.raised))
                  => exit_code = Some(1)
            /\ exit_code = Some(0) =>
                  \/ r.reached = "validate_only"
                  \/ ran /\ r.started.stopped = "user" /\ ~r.started.raised

\* C34: once the bot is constructed no step of the run changes the ladder
\* (the price, the sizes and the cumulative balances of every level) nor
\* base_needed and quote_needed
C34_LadderFrame ==
    [][ pc # "INITIALIZING" => UNCHANGED << orders_df, base_needed, quote_needed >> ]_vars

\* a run with a fill recorded and take profit entered, its ladder still the
\* one calculate_grid_orders built
C34_Witness ==
    /\ pc = "exited"
    /\ db.trades # << >>
    /\ take_profit_entries > 0
    /\ orders_df = calculate_grid_orders(config.base, Venue).orders_df
    /\ base_needed = calculate_grid_orders(config.base, Venue).base_needed
    /\ quote_needed = calculate_grid_orders(config.base, Venue).quote_needed

(***************************************************************************)
(* calculate_grid_orders over the configurations the validator accepts     *)
(***************************************************************************)
\* TRUE where the while loop of calculate_grid_orders, entered with
\* current_price0, reaches a level of price 0: spot_order_size_quote /
\* current_price raises ZeroDivisionError
RECURSIVE grid_walk_raises(_, _, _, _)
grid_walk_raises(cfg, venue, min_spot_price, current_price0) ==
    IF ~(current_price0 >= min_spot_price) THEN FALSE
    ELSE
      LET current_price == round_to_tick(current_price0, 1, venue.price_tick)
          next_price0 ==
              round_to_tick(current_price * (100 - cfg.spot_orders_diff_percent),
                            100, venue.price_tick)
          next_price == IF next_price0 >= current_price
                          THEN current_price - venue.price_tick
                          ELSE next_price0
      IN  IF current_price = 0 THEN TRUE
          ELSE grid_walk_raises(cfg, venue, min_spot_price, next_price)

\* TRUE where calculate_grid_orders raises
calculate_grid_orders_raises(cfg, venue) ==
    grid_walk_raises(cfg, venue,
        round_to_tick(cfg.spot_entry_price * (100 - cfg.spot_down_range_percent),
                      100, venue.price_tick),
        round_to_tick(cfg.spot_entry_price * (100 + cfg.spot_up_range_percent),
                      100, venue.price_tick))

\* configurations validate_config accepts, and positive ticks, in model units
LadderConfigs ==
    { c \in [ spot_entry_price : { 1, 10 }, spot_down_range_percent : { 20, 99 },
              spot_up_range_percent : { 20 }, spot_orders_diff_percent : { 15, 100 },
              spot_order_size_quote : { 5, 20 } ] :
        ~validate_config_raises(c) }
LadderVenues == { [ price_tick |-> t, size_tick |-> z ] : t \in { 1, 2, 30 }, z \in { 1, 2 } }

InitLadder ==
    /\ pc = "ladder"
    /\ call \in { Some([ cfg |-> c, venue |-> v ]) : c \in LadderConfigs, v \in LadderVenues }
    /\ result = None
    /\ config \in { [ trading_mode |-> "test", grid_max_open_orders |-> n,
                      base |-> BaseConfig ] : n \in 1..MaxOpenOrders }
    /\ orders_df = << >>
    /\ base_needed = 0
    /\ quote_needed = 0
    /\ open_orders = {}
    /\ Unstarted

\* the call self.grid_calculator.calculate_grid_orders() of __init__, for a
\* configuration main has validated
ApplyLadder ==
    /\ pc = "ladder"
    /\ result = None
    /\ IF calculate_grid_orders_raises(call[1].cfg, call[1].venue)
         THEN /\ result' = Some([ raised |-> TRUE ])
              /\ UNCHANGED << orders_df, base_needed, quote_needed >>
         ELSE LET grid == calculate_grid_orders(call[1].cfg, call[1].venue)
              IN  /\ result' = Some([ raised |-> FALSE, orders_df |-> grid.orders_df ])
                  /\ orders_df' = grid.orders_df
                  /\ base_needed' = grid.base_needed
                  /\ quote_needed' = grid.quote_needed
    /\ UNCHANGED << store_vars, pc, config, running, open_orders, buy_trades, sell_trades,
                    last_trade, last_pnl_check, last_simulated_balances, iter, bid_ask,
                    current_balances, db, exit_code, account, caught, sync, last_eval,
                    take_profit_entries, close_out, signal_at, call >>

\* the placement loops of the test branch of _manage_grid_orders, on the
\* ladder just built, with no order tracked yet
PlaceLadder ==
    /\ pc = "ladder"
    /\ result # None
    /\ ~result[1].raised
    /\ open_orders = {}
    /\ bid_ask = None
    /\ \E mid_price \in (orders_df[1].price - 1)..(orders_df[Len(orders_df)].price + 1),
          same_ms \in BOOLEAN :
         LET ranges == get_orders_for_price_range(orders_df, mid_price,
                                                  config.grid_max_open_orders)
             placed == PlaceLoop(Candidates(ranges), 1, SyncStart({}, None, 0, 0),
                                 {}, 1, same_ms)
         IN  /\ open_orders' = placed.open_orders
             /\ bid_ask' = << mid_price, mid_price >>
    /\ UNCHANGED << store_vars, pc, config, orders_df, base_needed, quote_needed, running,
                    buy_trades, sell_trades, last_trade, last_pnl_check,
                    last_simulated_balances, iter, current_balances, db, exit_code,
                    account, caught, sync, last_eval, take_profit_entries, close_out,
                    signal_at, call, result >>

NextLadder == ApplyLadder \/ PlaceLadder

SpecLadder == InitLadder /\ [][NextLadder]_vars

\* C35: every level of the ladder has a price that is a whole number of
\* price ticks and an order_size_base that is spot_order_size_quote / price
\* rounded half up to a whole number of size ticks, and every order placed in
\* simulated mode carries the price and the size of one level
C35_TickAligned ==
    (result # None /\ ~result[1].raised) =>
        LET venue == call[1].venue
            quote == call[1].cfg.spot_order_size_quote
        IN  /\ \A i \in DOMAIN orders_df :
                 /\ orders_df[i].price % venue.price_tick = 0
                 /\ orders_df[i].order_size_base % venue.size_tick = 0
                 /\ (2 * orders_df[i].order_size_base - venue.size_tick)
                        * orders_df[i].price <= 2 * quote
                 /\ 2 * quote < (2 * orders_df[i].order_size_base + venue.size_tick)
                                   * orders_df[i].price
            /\ \A o \in open_orders :
                 \E i \in DOMAIN orders_df :
                     /\ o.price = orders_df[i].price
                     /\ o.quantity = orders_df[i].order_size_base

\* a ladder on ticks of 2 holding a level whose raw size was rounded up and
\* one whose raw size was rounded down, with orders placed on both sides
C35_Witness ==
    /\ result # None
    /\ ~result[1].raised
    /\ call[1].venue = [ price_tick |-> 2, size_tick |-> 2 ]
    /\ \E i, j \in DOMAIN orders_df :
         /\ orders_df[i].order_size_base * orders_df[i].price
                > call[1].cfg.spot_order_size_quote
         /\ orders_df[j].order_size_base * orders_df[j].price
                < call[1].cfg.spot_order_size_quote
    /\ \E o, p \in open_orders : o.side = "BUY" /\ p.side = "SELL"

\* C39: for every configuration the validator accepts and every positive
\* price_tick and size_tick, calculate_grid_orders returns, without raising,
\* a ladder of at least one level whose prices are positive and at least one
\* price tick apart
C39_LadderTerminates ==
    result # None =>
        /\ ~result[1].raised
        /\ Len(orders_df) >= 1
        /\ \A i \in DOMAIN orders_df : orders_df[i].price > 0
        /\ \A i \in 1..(Len(orders_df) - 1) :
             orders_df[i + 1].price - orders_df[i].price >= call[1].venue.price_tick

\* C36: in simulated mode a sync pass removes from the tracked orders exactly
\* the orders whose fill it recorded: every order tracked before the pass and
\* not recorded as filled is still tracked after it
C36_FillRemovesOneOrder ==
    (sync # None /\ test_mode /\ pc = "pnl") =>
        /\ \A o \in sync[1].open_before :
             (\A i \in DOMAIN sync[1].trades : sync[1].trades[i] # TradeOf(o.side, o))
                => o \in open_orders
        /\ Cardinality(sync[1].open_before \ open_orders) = Len(sync[1].trades)

\* the number of trade records of a side among those persisted
CountSide(trades, side) == Cardinality({ i \in DOMAIN trades : trades[i].side = side })

\* C37: at every point of a run buy_trades is the number of BUY trade
\* records persisted for the run and sell_trades the number of SELL records,
\* also after a trade write or another step has raised
C37_CountersMatchTrades ==
    /\ buy_trades = CountSide(db.trades, "BUY")
    /\ sell_trades = CountSide(db.trades, "SELL")

\* C38: in simulated mode no two tracked open orders have the same price and
\* side, and the price of every tracked order is the price of a ladder level
C38_NoDuplicateOrders ==
    test_mode =>
        /\ \A o, p \in open_orders : (o.price = p.price /\ o.side = p.side) => o = p
        /\ \A o \in open_orders : \E i \in DOMAIN orders_df : o.price = orders_df[i].price

\* a pass that found a BUY and a SELL tracked, placed further orders, and left
\* orders of both sides tracked
C38_Witness ==
    /\ test_mode
    /\ sync # None
    /\ pc = "pnl"
    /\ \E o, p \in sync[1].open_before : o.side = "BUY" /\ p.side = "SELL"
    /\ sync[1].placed # {}
    /\ \E o, p \in open_orders : o.side = "BUY" /\ p.side = "SELL"

(***************************************************************************)
(* Calculator.calculate_spot_realized_pnl (FIFO) beside the average cost   *)
(* of TraderBot.calculate_spot_realized_pnl                                *)
(***************************************************************************)
\* a closing loop that takes the whole first lot whatever is left to close
RECURSIVE CloseLoopWholeLot(_, _, _, _)
CloseLoopWholeLot(open_positions, qty_to_close, price, realized) ==
    IF ~(qty_to_close > 0 /\ open_positions # << >>)
      THEN [ open_positions |-> open_positions, realized_pnl |-> realized ]
    ELSE
      LET open_qty == open_positions[1][1]
          open_price == open_positions[1][2]
      IN  CloseLoopWholeLot(Tail(open_positions),
                            qty_to_close - Min(open_qty, qty_to_close), price,
                            realized + (price - open_price) * open_qty)

\* the while loop of a sell: the oldest open lots are matched against
\* qty_to_close, an emptied lot is popped; what is sold beyond the open lots
\* is ignored
RECURSIVE CloseLoop(_, _, _, _)
CloseLoop(open_positions, qty_to_close, price, realized) ==
    IF ~(qty_to_close > 0 /\ open_positions # << >>)
      THEN [ open_positions |-> open_positions, realized_pnl |-> realized ]
    ELSE
      LET open_qty == open_positions[1][1]
          open_price == open_positions[1][2]
          matched_qty == Min(open_qty, qty_to_close)
          pnl == (price - open_price) * matched_qty
          remaining == IF open_qty - matched_qty = 0
                         THEN Tail(open_positions)
                         ELSE << << open_qty - matched_qty, open_price >> >>
                              \o Tail(open_positions)
      IN  CloseLoop(remaining, qty_to_close - matched_qty, price, realized + pnl)

\* the for loop of Calculator.calculate_spot_realized_pnl over the sorted
\* trades
RECURSIVE FifoLoop(_, _, _)
FifoLoop(trades, open_positions, realized) ==
    IF trades = << >> THEN realized
    ELSE
      LET trade == Head(trades)
          side == Lower(trade.side)
      IN  IF side = "buy"
            THEN FifoLoop(Tail(trades),
                          Append(open_positions, << trade.quantity, trade.price >>),
                          realized)
          ELSE IF side = "sell"
            THEN LET closed == CloseLoop(open_positions, trade.quantity, trade.price,
                                         realized)
                 IN  FifoLoop(Tail(trades), closed.open_positions, closed.realized_pnl)
          ELSE FifoLoop(Tail(trades), open_positions, realized)

\* Calculator.calculate_spot_realized_pnl(trades)
Calculator_calculate_spot_realized_pnl(trades) ==
    IF trades = << >> THEN 0
    ELSE FifoLoop(SortByTimestamp(trades), << >>, 0)

FifoFills == [ side : { "BUY", "SELL" }, price : { 100, 130 }, quantity : { 1, 2 } ]
FifoHistories == UNION { [1..k -> FifoFills] : k \in 0..MaxHistory }

\* the trades file of a run with the trades of a history
FifoFile(history) ==
    [ name |-> [ table |-> "trades", date |-> 1, time |-> None ],
      lines |-> [ k \in DOMAIN history |->
                    [ well_formed |-> TRUE, timestamp |-> k, bot_name |-> "DefaultBot",
                      bot_run |-> "run_1", side |-> history[k].side,
                      price |-> history[k].price, quantity |-> history[k].quantity ] ] ]

InitFifo ==
    /\ pc = "fifo"
    /\ config = [ trading_mode |-> "test", grid_max_open_orders |-> 1, base |-> BaseConfig ]
    /\ orders_df = << >>
    /\ base_needed = 0
    /\ quote_needed = 0
    /\ call \in { Some([ data_dir |-> { FifoFile(h) }, bot_name |-> "DefaultBot" ]) :
                    h \in FifoHistories }
    /\ result = None
    /\ open_orders = {}
    /\ Unstarted

\* both implementations over the trades of the bot
ApplyFifo ==
    /\ pc = "fifo"
    /\ result = None
    /\ \E listing \in Listings(call[1].data_dir) :
         LET trades == read_table(call[1].data_dir, listing, "trades",
                                  Some(call[1].bot_name), None)
         IN  result' = Some([ trades |-> trades,
                              fifo |-> Calculator_calculate_spot_realized_pnl(trades),
                              average_cost |-> calculate_spot_realized_pnl(
                                                   call[1].data_dir, listing,
                                                   call[1].bot_name) ])
    /\ UNCHANGED << store_vars, pc, config, orders_df, base_needed, quote_needed, running,
                    open_orders, buy_trades, sell_trades, last_trade, last_pnl_check,
                    last_simulated_balances, iter, bid_ask, current_balances, db,
                    exit_code, account, caught, sync, last_eval, take_profit_entries,
                    close_out, signal_at, call >>

NextFifo == ApplyFifo

SpecFifo == InitFifo /\ [][NextFifo]_vars

\* the total BUY quantity of a history equals its total SELL quantity
Balanced(trades) == SumTrades(trades, "buy", FALSE) = SumTrades(trades, "sell", FALSE)

\* every SELL is covered by BUY quantity of earlier trades not yet sold
Covered(trades) ==
    \A n \in DOMAIN trades :
        SumTrades(SubSeq(trades, 1, n), "sell", FALSE)
            <= SumTrades(SubSeq(trades, 1, n), "buy", FALSE)

\* C40: over a trade history whose total BUY quantity equals its total SELL
\* quantity and in which every SELL is covered by earlier unsold BUY
\* quantity, the FIFO implementation and the average-cost implementation
\* return the same realized PnL
C40_FifoEqualsAverageCost ==
    (result # None /\ Balanced(result[1].trades) /\ Covered(result[1].trades)) =>
        result[1].fifo * result[1].average_cost.den = result[1].average_cost.num

\* a balanced, covered history in which a SELL closes one lot in part and a
\* later SELL spans two lots, with a PnL that is not zero
C40_Witness ==
    /\ result # None
    /\ Balanced(result[1].trades)
    /\ Covered(result[1].trades)
    /\ Len(result[1].trades) = 4
    /\ result[1].trades[1].side = "BUY" /\ result[1].trades[1].quantity = 2
    /\ result[1].trades[2].side = "SELL" /\ result[1].trades[2].quantity = 1
    /\ result[1].trades[3].side = "BUY" /\ result[1].trades[3].quantity = 1
    /\ result[1].trades[4].side = "SELL" /\ result[1].trades[4].quantity = 2
    /\ result[1].trades[1].price # result[1].trades[3].price
    /\ result[1].fifo # 0

====
